---- MODULE Spec2Model ----
(***************************************************************************)
(* Verification model of ghaf-virtiofs-tools:                              *)
(*   - the gate's channel handler (gate/daemon.rs) together with the       *)
(*     startup sync pass (gate/sync.rs), run against producer VMs that     *)
(*     change their share subtrees between any two system calls of the     *)
(*     handler (specification SpecGate);                                   *)
(*   - two sync passes in a row with the files' modification times        *)
(*     (SpecSyncTwice), and the handler's entry checks for events with     *)
(*     arbitrary path strings (SpecGateGuard);                             *)
(*   - the vproxy command filter and streaming proxy (vproxy/main.rs)      *)
(*     (specifications SpecParse and SpecProxy).                           *)
(* Each specification constrains all variables; the variables of the       *)
(* components it does not exercise stay at their idle values.              *)
(***************************************************************************)
EXTENDS Integers, Sequences, FiniteSets, TLC

VARIABLES
    \* ---- gate: channel configuration (immutable after load)
    cfg,
    \* ---- gate: the channel's filesystem
    share,          \* share[p][r]: content of share/<p>/<r>, or Absent
    export,         \* export[r]
    quarantine,     \* quarantine[r]
    \* ---- gate: ChannelRunner::run position and the handler's frame
    phase,          \* "start" | "sync" | "watch"
    syncActions,    \* SyncAction values still to execute
    h,              \* the running handler's locals and program counter
    \* ---- gate: observation (history) variables
    log,            \* filesystem changes made by the current handler call
    judgedClean,    \* contents for which the scanner answered Clean
    vmOps,          \* producer-VM operations so far
    nEvents,        \* watcher events dispatched so far
    \* ---- vproxy
    parseIn,        \* a command buffer handed to Command::parse
    parseOut,       \* the value Command::parse returned for it
    px,             \* one proxy connection: the guest, the handler's
                    \* locals and program counter, the scanner socket
    srv,            \* vproxy main: the semaphore, the accept loop and the
                    \* connection tasks it has spawned
    \* ---- watcher
    w,              \* one Watcher: its tables, its event queue, the
                    \* watched directory and the kernel's event stream
    \* ---- gate: file times
    sy,             \* the clock, the modification time of every file of
                    \* the channel, and the sync passes run so far
    \* ---- gate: one atomic_reflink call, seen by a reader of its
    \* destination
    ar,
    \* ---- scanner client: one response line and the verdict parsed from it
    sc,
    \* ---- gate: Daemon::run, its channel tasks and the shutdown signal
    dm,
    \* ---- gate: ChannelRunner::run, the watches registered so far and the
    \* events its watcher has still to deliver
    su

vars == <<cfg, share, export, quarantine, phase, syncActions, h, log,
          judgedClean, vmOps, nEvents, parseIn, parseOut, px, srv, w, sy,
          ar, sc, dm, su>>

proxyVars == <<parseIn, parseOut, px, srv>>

watcherVars == <<w>>

otherVars == <<ar, sc, dm, su>>

timeVars == <<sy>>

gateVars == <<cfg, share, export, quarantine, phase, syncActions, h, log,
              judgedClean, vmOps, nEvents>>

\* ------------------------------------------------------------------------
\* Bounds of the gate model
\* ------------------------------------------------------------------------
MaxVmOps == 2
MaxEvents == 1
\* Modification times read by the sync inventory range over 1..MaxMTime.
MaxMTime == 2

\* ------------------------------------------------------------------------
\* Paths.  A path is a sequence of components, a component a sequence of
\* characters.  ".." is Component::ParentDir, "/" is Component::RootDir.
\* ------------------------------------------------------------------------
ParentDir == <<".", ".">>
RootDir == <<"/">>

NameF == <<"f">>
NameG == <<"g">>

\* The relative paths the producers use.
Rel == { <<NameF>>, <<NameG>> }

\* Producers in configuration order (config.producers).
ProducerOrder == <<"a", "b">>
Producers == { ProducerOrder[i] : i \in 1..Len(ProducerOrder) }

Absent == "absent"
Contents == {"empty", "good", "evil"}
FileVal == Contents \cup {Absent}

\* Metadata::len of a file holding content c.
FileLen(c) == IF c = "empty" THEN 0 ELSE 1

NoVal == "none"


\* ------------------------------------------------------------------------
\* Path helpers (gate/daemon.rs)
\* ------------------------------------------------------------------------
SharePath(producer) == << <<"share">>, <<producer>> >>

ExportPath == << <<"export">> >>

QuarantinePath == << <<"quarantine">> >>

\* Path::strip_prefix: Ok(remainder) or Err.
StripPrefix(path, prefix) ==
    IF Len(path) >= Len(prefix) /\ SubSeq(path, 1, Len(prefix)) = prefix
    THEN [ok |-> TRUE, rest |-> SubSeq(path, Len(prefix) + 1, Len(path))]
    ELSE [ok |-> FALSE, rest |-> <<>>]

\* Faulty variant: only a leading parent component is refused.
IsSafeRelativePathLeading(path) ==
    ~ (Len(path) > 0 /\ path[1] \in {ParentDir, RootDir})

IsSafeRelativePath(path) ==
    ~ \E i \in 1..Len(path) : path[i] \in {ParentDir, RootDir}

\* str::contains on character sequences.
StrContains(s, pat) ==
    \E i \in 0..(Len(s) - Len(pat)) : SubSeq(s, i + 1, i + Len(pat)) = pat

\* Path::to_string_lossy of a relative path: components joined by "/".
RECURSIVE PathString(_)
PathString(path) ==
    IF Len(path) = 0 THEN <<>>
    ELSE IF Len(path) = 1 THEN path[1]
    ELSE path[1] \o <<"/">> \o PathString(Tail(path))

\* Faulty variant: the file patterns are matched against every component.
FileNameAny(path) == PathString(path)

\* Path::file_name, unwrap_or_default.
FileName(path) ==
    IF Len(path) = 0 \/ path[Len(path)] = ParentDir THEN <<>>
    ELSE path[Len(path)]

ShouldIgnore(path, relative) ==
    \/ \E pat \in cfg.ignoreFile : StrContains(FileName(path), pat)
    \/ \E pat \in cfg.ignorePath : StrContains(PathString(relative), pat)

IsDiode(producer) == producer \in cfg.diode

\* ------------------------------------------------------------------------
\* Channel configurations explored
\* ------------------------------------------------------------------------
InfectedActions == {"log", "delete", "quarantine"}

\* With scanning disabled, permissive and infectedAction are never read:
\* those channels are explored with the defaults only.
Configs ==
    { cf \in [diode : {{}, {"a"}}, consumers : BOOLEAN, enabled : BOOLEAN,
              permissive : BOOLEAN, action : InfectedActions,
              ignoreFile : {{}}, ignorePath : {{}}] :
        cf.enabled \/ (~cf.permissive /\ cf.action = "delete") }

\* ------------------------------------------------------------------------
\* The handler's frame
\* ------------------------------------------------------------------------
HIdle ==
    [pc |-> "idle", kind |-> NoVal, source |-> NoVal, rel |-> <<>>,
     old |-> <<>>, srcContent |-> NoVal, srcLinked |-> FALSE, metaLen |-> 0,
     staged |-> NoVal, scanned |-> NoVal, verdict |-> NoVal, ti |-> 0,
     tmp |-> NoVal, ioFailed |-> FALSE, written |-> <<>>,
     notified |-> FALSE, caller |-> NoVal,
     \* observation: the event as the watcher passed it (the directory it
     \* was seen in, the name, the old name of a rename), and whether the
     \* call returned at its entry checks
     evBase |-> NoVal, ev |-> <<>>, evOld |-> <<>>, dropped |-> FALSE]

Returned == h.pc \in {"idle", "done"}

\* Return from the handler: the file handles and temporaries are dropped.
Return(hh) ==
    [hh EXCEPT !.pc = "done", !.srcContent = NoVal, !.srcLinked = FALSE,
               !.metaLen = 0, !.ti = 0, !.tmp = NoVal]

\* Targets of a propagation, in the order the code visits them: the
\* producers in configuration order, then export.
NTargets == Len(ProducerOrder) + 1

IsExportTarget(i) == i = NTargets

\* Faulty variants of the loop conditions: one that does not skip the
\* diode producers, one that does not skip the source producer.
EligibleDiodeToo(i, source) ==
    IF IsExportTarget(i) THEN cfg.consumers
    ELSE ProducerOrder[i] # source

\* Faulty variant: export is a target whether or not consumers exist.
EligibleExportAlways(i, source) ==
    IF IsExportTarget(i) THEN TRUE
    ELSE ProducerOrder[i] # source /\ ~IsDiode(ProducerOrder[i])

EligibleSourceToo(i, source) ==
    IF IsExportTarget(i) THEN cfg.consumers
    ELSE ~IsDiode(ProducerOrder[i])

\* The loop conditions of propagate_clean / on_deleted / on_renamed.
Eligible(i, source) ==
    IF IsExportTarget(i) THEN cfg.consumers
    ELSE ProducerOrder[i] # source /\ ~IsDiode(ProducerOrder[i])

RECURSIVE NextEligible(_, _)
NextEligible(i, source) ==
    IF i > NTargets THEN i
    ELSE IF Eligible(i, source) THEN i
    ELSE NextEligible(i + 1, source)

TargetVal(i, rel) ==
    IF IsExportTarget(i) THEN export[rel] ELSE share[ProducerOrder[i]][rel]

TargetRoot(i) == IF IsExportTarget(i) THEN "export" ELSE "share"

TargetProd(i) == IF IsExportTarget(i) THEN NoVal ELSE ProducerOrder[i]

\* Continue propagate_clean / propagate_clean_from_file at target i; after
\* the last target the handler calls spawn_notify and returns `written`.
PropEntryPc(hh) == IF IsDiode(hh.source) THEN "pcheck" ELSE "pclone"

GotoProp(hh, i) ==
    LET j == NextEligible(i, hh.source) IN
    IF j > NTargets THEN Return([hh EXCEPT !.notified = TRUE])
    ELSE [hh EXCEPT !.ti = j, !.pc = PropEntryPc(hh)]

\* Continue the delete loop of on_deleted / on_renamed at target i.
GotoDel(hh, i) ==
    LET j == NextEligible(i, hh.source) IN
    IF j > NTargets
    THEN IF hh.kind = "Deleted" THEN Return([hh EXCEPT !.notified = TRUE])
         ELSE GotoProp(hh, 1)
    ELSE [hh EXCEPT !.ti = j, !.pc = "del"]

\* Entry of on_modified / on_deleted / on_renamed up to the first system
\* call: prefix stripping, the traversal guard and the ignore patterns.
Enter(kind, path, oldPath, source, caller) ==
    LET sp == StripPrefix(path, SharePath(source))
        so == IF kind = "Renamed" THEN StripPrefix(oldPath, SharePath(source))
              ELSE [ok |-> TRUE, rest |-> <<>>]
        base == [HIdle EXCEPT !.kind = kind, !.source = source,
                              !.caller = caller, !.rel = sp.rest,
                              !.old = so.rest]
        drop == Return([base EXCEPT !.dropped = TRUE])
    IN  IF ~sp.ok \/ ~so.ok THEN drop
        ELSE IF ~IsSafeRelativePath(sp.rest) \/ ~IsSafeRelativePath(so.rest)
        THEN drop
        ELSE IF ShouldIgnore(path, sp.rest) THEN drop
        ELSE IF kind = "Deleted" THEN GotoDel(base, 1)
        ELSE [base EXCEPT !.pc = "open"]

\* ------------------------------------------------------------------------
\* Scanner (VirusScanner::scan_fd as seen by the handler)
\* ------------------------------------------------------------------------
\* What a working scanner says about a content.
TrueVerdict(c) == IF c = "evil" THEN "Infected" ELSE "Clean"

\* Ok(Clean | Infected | Error | NotFound), or "Err" for a failed call.
ScanOutcomes(c) == {TrueVerdict(c), "Error", "NotFound", "Err"}

\* ------------------------------------------------------------------------
\* Init
\* ------------------------------------------------------------------------
PxIdle == [pc |-> "off"]

\* The proxy's accept loop and the watcher, not started.
SrvIdle == [loop |-> "off"]

WIdle == [pc |-> "off"]

\* The components a specification does not exercise, not started.
ArIdle == [pc |-> "off"]

ScIdle == [pc |-> "off"]

DmIdle == [pc |-> "off"]

SuIdle == [pc |-> "off"]

OthersIdle == ar = ArIdle /\ sc = ScIdle /\ dm = DmIdle /\ su = SuIdle

\* The trees the sync inventory scans.
Trees == Producers \cup {"export"}

\* File times while no clock is modelled: every file carries time 0.
\* `first` and `second` are the actions the two sync passes computed.
SyIdle ==
    [clock |-> 0, mtime |-> [t \in Trees |-> [r \in Rel |-> 0]],
     pass |-> 0, first |-> {}, second |-> {}]

\* A write to <tree>/<rel> (write(2), or FICLONE into a fresh temporary
\* file that is then renamed over the path) leaves the file with the
\* current time as its modification time.
Touch(tree, rel) == [sy EXCEPT !.mtime[tree][rel] = sy.clock]

\* Command::parse not yet called.
ParsePending == [cmd |-> "Pending", len |-> 0]

\* Export trees a starting daemon may find: empty, or a file left behind by
\* an earlier run.
ExportSeeds ==
    { [r \in Rel |-> Absent],
      [r \in Rel |-> IF r = <<NameF>> THEN "good" ELSE Absent] }

\* State when ChannelRunner::run is entered (ph = "start") or when it
\* reaches the watcher loop (ph = "watch"), for a channel configured with
\* one of cfgs.
GateVarsInit(cfgs, ph, seeds) ==
    /\ cfg \in cfgs
    /\ share = [p \in Producers |-> [r \in Rel |-> Absent]]
    /\ export \in seeds
    /\ quarantine = [r \in Rel |-> Absent]
    /\ phase = ph
    /\ syncActions = {}
    /\ h = HIdle
    /\ log = {}
    /\ judgedClean = {}
    /\ vmOps = 0
    /\ nEvents = 0

GateInitWith(cfgs, ph, seeds) ==
    /\ GateVarsInit(cfgs, ph, seeds)
    /\ parseIn = <<>>
    /\ parseOut = ParsePending
    /\ px = PxIdle
    /\ srv = SrvIdle
    /\ w = WIdle
    /\ sy = SyIdle
    /\ OthersIdle

GateInit == GateInitWith(Configs, "watch", {[r \in Rel |-> Absent]})

\* ------------------------------------------------------------------------
\* Producer VMs: they own their share subtree and act at any time.
\* ------------------------------------------------------------------------
\* The run is over once the last dispatched event has been handled.
RunOver == Returned /\ phase = "watch" /\ nEvents = MaxEvents

HandleOn(p, r) ==
    ~Returned /\ h.srcLinked /\ h.source = p /\ h.rel = r

\* The share files a running handler call can still observe: its source
\* file (open handle, later removal) and the target its next step checks,
\* replaces or removes.  A VM operation on any other file commutes with
\* every remaining step of the call, so while a call is running the VMs
\* are explored only on these files.
NextAccess ==
    {<<h.source, h.rel>>} \cup
    (CASE h.pc \in {"pcheck", "pclone", "ppersist"} /\ ~IsExportTarget(h.ti) ->
            {<<ProducerOrder[h.ti], h.rel>>}
       [] h.pc = "del" /\ ~IsExportTarget(h.ti) ->
            {<<ProducerOrder[h.ti], IF h.kind = "Deleted" THEN h.rel ELSE h.old>>}
       [] OTHER -> {})

VmMayAct(p, r) ==
    /\ vmOps < MaxVmOps
    /\ ~RunOver
    /\ Returned \/ <<p, r>> \in NextAccess

\* Write in place (or create): the inode an open handle refers to changes
\* with it.
VmWrite(p, r, c) ==
    /\ VmMayAct(p, r)
    /\ share[p][r] # c
    /\ share' = [share EXCEPT ![p][r] = c]
    /\ h' = IF HandleOn(p, r) /\ share[p][r] # Absent
            THEN [h EXCEPT !.srcContent = c] ELSE h
    /\ vmOps' = vmOps + 1
    /\ sy' = Touch(p, r)
    /\ UNCHANGED <<cfg, export, quarantine, phase, syncActions, log,
                   judgedClean, nEvents, proxyVars, watcherVars, otherVars>>

\* Unlink: an open handle keeps the inode, the path no longer names it.
VmDelete(p, r) ==
    /\ VmMayAct(p, r)
    /\ share[p][r] # Absent
    /\ share' = [share EXCEPT ![p][r] = Absent]
    /\ h' = IF HandleOn(p, r) THEN [h EXCEPT !.srcLinked = FALSE] ELSE h
    /\ vmOps' = vmOps + 1
    /\ UNCHANGED <<cfg, export, quarantine, phase, syncActions, log,
                   judgedClean, nEvents, proxyVars, watcherVars, otherVars, timeVars>>

\* ------------------------------------------------------------------------
\* Watcher::run: dispatch of one event to the handler
\* ------------------------------------------------------------------------
Dispatch(kind, source, rel, old) ==
    /\ phase = "watch"
    /\ Returned
    /\ nEvents < MaxEvents
    /\ h' = Enter(kind, SharePath(source) \o rel, SharePath(source) \o old,
                  source, "watch")
    /\ log' = {}
    /\ nEvents' = nEvents + 1
    /\ UNCHANGED <<cfg, share, export, quarantine, phase, syncActions,
                   judgedClean, vmOps, proxyVars, watcherVars, otherVars, timeVars>>

OnModified == \E s \in Producers, r \in Rel : Dispatch("Modified", s, r, <<>>)

OnDeleted == \E s \in Producers, r \in Rel : Dispatch("Deleted", s, r, <<>>)

OnRenamed ==
    \E s \in Producers, r \in Rel :
        \E o \in Rel \ {r} : Dispatch("Renamed", s, r, o)

\* ------------------------------------------------------------------------
\* Handler steps, one per system call (or scanner call)
\* ------------------------------------------------------------------------
HFrame == UNCHANGED <<cfg, phase, syncActions, vmOps, nEvents, proxyVars,
                      watcherVars, otherVars>>

HUnchanged == HFrame /\ UNCHANGED timeVars

\* safe_open + File::metadata of the event path (on_modified, on_renamed).
OpenSource ==
    /\ h.pc = "open"
    /\ LET c == share[h.source][h.rel] IN
       IF c = Absent
       THEN h' = Return(h)
       ELSE LET hh == [h EXCEPT !.srcContent = c, !.srcLinked = TRUE,
                                !.metaLen = FileLen(c)]
            IN h' = IF h.kind = "Modified" THEN [hh EXCEPT !.pc = "stage"]
                    ELSE GotoDel(hh, 1)
    /\ UNCHANGED <<share, export, quarantine, log, judgedClean>>
    /\ HUnchanged

\* clone_to_staging (FICLONE of the open source into staging/), then the
\* empty-file and scanning-disabled shortcuts of on_modified.
SkipsScan(hh) == hh.metaLen = 0 \/ ~cfg.enabled

Stage ==
    /\ h.pc = "stage"
    /\ \E ok \in BOOLEAN :
         h' = IF ~ok THEN Return([h EXCEPT !.ioFailed = TRUE])
              ELSE LET hh == [h EXCEPT !.staged = h.srcContent] IN
                   IF SkipsScan(hh)
                   THEN GotoProp([hh EXCEPT !.verdict = "Clean"], 1)
                   ELSE [hh EXCEPT !.pc = "scan"]
    /\ UNCHANGED <<share, export, quarantine, log, judgedClean>>
    /\ HUnchanged

\* First step of handle_infected for the configured action.
InfectedEntry(hh) ==
    CASE cfg.action = "log" -> Return(hh)
      [] cfg.action = "delete" -> [hh EXCEPT !.pc = "remove"]
      [] cfg.action = "quarantine" -> [hh EXCEPT !.pc = "quar"]

\* What on_modified does with the outcome of scanner.scan_fd.
AfterScan(hh, res) ==
    CASE res = "Clean" -> GotoProp(hh, 1)
      [] res = "Infected" -> InfectedEntry(hh)
      [] res = "Error" -> IF cfg.permissive THEN GotoProp(hh, 1)
                          ELSE InfectedEntry(hh)
      [] res = "Err" -> IF cfg.permissive THEN GotoProp(hh, 1)
                        ELSE Return(hh)
      [] res = "NotFound" -> Return(hh)

Scan ==
    /\ h.pc = "scan"
    /\ \E res \in ScanOutcomes(h.staged) :
         /\ h' = AfterScan([h EXCEPT !.scanned = h.staged, !.verdict = res], res)
         /\ judgedClean' = IF res = "Clean" THEN judgedClean \cup {h.staged}
                           ELSE judgedClean
    /\ UNCHANGED <<share, export, quarantine, log>>
    /\ HUnchanged

\* Faulty variant: every propagation clones from the open (live) file.
CloneSourceLive(hh) == hh.srcContent

\* The file a propagation clones from: the staged snapshot for Modified,
\* the open (live) file for Renamed.
CloneSource(hh) == IF hh.kind = "Modified" THEN hh.staged ELSE hh.srcContent

\* Diode source only: target.exists().
PropCheck ==
    /\ h.pc = "pcheck"
    /\ h' = IF TargetVal(h.ti, h.rel) # Absent THEN GotoProp(h, h.ti + 1)
            ELSE [h EXCEPT !.pc = "pclone"]
    /\ UNCHANGED <<share, export, quarantine, log, judgedClean>>
    /\ HUnchanged

\* atomic_reflink up to the rename: temp file in the destination directory,
\* FICLONE, permissions, ownership.  Any of these may fail.
PropClone ==
    /\ h.pc = "pclone"
    /\ \E ok \in BOOLEAN :
         h' = IF ok THEN [h EXCEPT !.tmp = CloneSource(h), !.pc = "ppersist"]
              ELSE GotoProp([h EXCEPT !.ioFailed = TRUE], h.ti + 1)
    /\ UNCHANGED <<share, export, quarantine, log, judgedClean>>
    /\ HUnchanged

InstallEntry(i, rel, c, before) ==
    [op |-> "install", root |-> TargetRoot(i), prod |-> TargetProd(i),
     rel |-> rel, content |-> c, replaced |-> before # Absent]

\* atomic_reflink: tmp.persist(dst), the rename over the destination, then
\* fs::metadata(&target) for `written`.  A failed rename leaves the
\* destination as it was.
PropPersist ==
    /\ h.pc = "ppersist"
    /\ \E ok \in BOOLEAN :
          IF ok
          THEN /\ IF IsExportTarget(h.ti)
                  THEN /\ export' = [export EXCEPT ![h.rel] = h.tmp]
                       /\ share' = share
                       /\ sy' = Touch("export", h.rel)
                  ELSE /\ share' = [share EXCEPT ![ProducerOrder[h.ti]][h.rel] = h.tmp]
                       /\ export' = export
                       /\ sy' = Touch(ProducerOrder[h.ti], h.rel)
               /\ log' = log \cup {InstallEntry(h.ti, h.rel, h.tmp,
                                                TargetVal(h.ti, h.rel))}
               /\ h' = GotoProp([h EXCEPT !.tmp = NoVal,
                                   !.written = IF IsExportTarget(h.ti) THEN @
                                               ELSE Append(@, ProducerOrder[h.ti])],
                                h.ti + 1)
          ELSE /\ UNCHANGED <<share, export, log, sy>>
               /\ h' = GotoProp([h EXCEPT !.tmp = NoVal, !.ioFailed = TRUE],
                                h.ti + 1)
    /\ UNCHANGED <<quarantine, judgedClean>>
    /\ HFrame

RemoveEntry(root, prod, rel, before) ==
    [op |-> "remove", root |-> root, prod |-> prod, rel |-> rel,
     content |-> before, replaced |-> before # Absent]

\* One iteration of the delete loop: target.exists() and fs::remove_file.
DelPath(hh) == IF hh.kind = "Deleted" THEN hh.rel ELSE hh.old

DelStep ==
    /\ h.pc = "del"
    /\ LET r == DelPath(h)
           before == TargetVal(h.ti, r)
       IN /\ IF IsExportTarget(h.ti)
             THEN /\ export' = [export EXCEPT ![r] = Absent]
                  /\ share' = share
             ELSE /\ share' = [share EXCEPT ![ProducerOrder[h.ti]][r] = Absent]
                  /\ export' = export
          /\ log' = IF before = Absent THEN log
                    ELSE log \cup {RemoveEntry(TargetRoot(h.ti), TargetProd(h.ti),
                                               r, before)}
    /\ h' = GotoDel(h, h.ti + 1)
    /\ UNCHANGED <<quarantine, judgedClean>>
    /\ HUnchanged

\* Faulty variant: a failed quarantine install leaves the source in place.
AfterQuarantineKeep(hh, ok) ==
    IF ok THEN [hh EXCEPT !.pc = "remove"]
    ELSE Return([hh EXCEPT !.ioFailed = TRUE])

\* handle_infected, Quarantine: a failed install is only logged; the source
\* is removed in both cases.
AfterQuarantine(hh, ok) ==
    [hh EXCEPT !.pc = "remove", !.ioFailed = @ \/ ~ok]

\* handle_infected, Quarantine: atomic_reflink(tmp, None, quarantine/rel).
Quarantine ==
    /\ h.pc = "quar"
    /\ \E ok \in BOOLEAN :
         /\ IF ok
            THEN /\ quarantine' = [quarantine EXCEPT ![h.rel] = h.staged]
                 /\ log' = log \cup {[op |-> "install", root |-> "quarantine",
                                      prod |-> NoVal, rel |-> h.rel,
                                      content |-> h.staged,
                                      replaced |-> quarantine[h.rel] # Absent]}
            ELSE /\ quarantine' = quarantine
                 /\ log' = log
         /\ h' = AfterQuarantine(h, ok)
    /\ UNCHANGED <<share, export, judgedClean>>
    /\ HUnchanged

\* handle_infected, Delete and Quarantine: fs::remove_file(src_path).
RemoveSource ==
    /\ h.pc = "remove"
    /\ share' = [share EXCEPT ![h.source][h.rel] = Absent]
    /\ log' = log \cup {RemoveEntry("share", h.source, h.rel,
                                    share[h.source][h.rel])}
    /\ h' = Return(h)
    /\ UNCHANGED <<export, quarantine, judgedClean>>
    /\ HUnchanged

\* ------------------------------------------------------------------------
\* Startup sync pass (gate/sync.rs)
\* ------------------------------------------------------------------------
MTimes == 1..MaxMTime

\* The mtimes the inventory scan reads, per tree and relative path.
MTimeReadings == [Producers \cup {"export"} -> [Rel -> MTimes]]

FileInfo(mtime, c) == [mtime |-> mtime, size |-> FileLen(c)]

\* build_inventory, producers: the entries of one relative path, in the
\* order of config.producers.
ProducerEntries(rel, mt) ==
    LET holders == SelectSeq(ProducerOrder, LAMBDA p : share[p][rel] # Absent)
    IN  [i \in 1..Len(holders) |->
            [source |-> holders[i],
             info |-> FileInfo(mt[holders[i]][rel], share[holders[i]][rel])]]

\* Faulty variant: export is scanned whether or not consumers exist.
ExportEntriesAlways(rel, mt) ==
    IF export[rel] # Absent
    THEN << [source |-> "export",
             info |-> FileInfo(mt["export"][rel], export[rel])] >>
    ELSE << >>

\* build_inventory, export: scanned only if consumers exist.  The value is
\* the list of entries of one relative path.
ExportEntries(rel, mt) ==
    IF cfg.consumers /\ export[rel] # Absent
    THEN << [source |-> "export", info |-> FileInfo(mt["export"][rel], export[rel])] >>
    ELSE << >>

\* Faulty variant: the first entry, whatever its mtime.
MaxByMtimeFirst(entries) == entries[1]

\* Iterator::max_by_key(mtime): the last entry among those of maximal key.
MaxByMtime(entries) ==
    LET isMax(i) == \A j \in 1..Len(entries) :
                        entries[j].info.mtime <= entries[i].info.mtime
        last == CHOOSE i \in 1..Len(entries) :
                    isMax(i) /\ \A j \in 1..Len(entries) : isMax(j) => j <= i
    IN  entries[last]

ProducersInConflict(entries) ==
    /\ Len(entries) > 1
    /\ \E i \in 2..Len(entries) :
          \/ entries[i].info.mtime # entries[1].info.mtime
          \/ entries[i].info.size # entries[1].info.size

NeedsProducerSync(entries) == Len(entries) < Len(ProducerOrder)

NeedsExportSync(best, exportEntries) ==
    IF ~cfg.consumers THEN FALSE
    ELSE IF Len(exportEntries) = 0 THEN TRUE
    ELSE \E i \in 1..Len(exportEntries) :
            \/ exportEntries[i].info.mtime # best.info.mtime
            \/ exportEntries[i].info.size # best.info.size

\* compute_producer_action: the set holding the action, or the empty set.
ComputeProducerAction(rel, entries, exportEntries) ==
    IF Len(entries) = 0 THEN {}
    ELSE LET best == MaxByMtime(entries) IN
         IF \/ ProducersInConflict(entries)
            \/ NeedsProducerSync(entries)
            \/ NeedsExportSync(best, exportEntries)
         THEN {[type |-> "TriggerSync", source |-> best.source, rel |-> rel]}
         ELSE {}

\* compute_actions: the actions of all producer paths, and DeleteStale for
\* every export path that no producer holds.
ComputeActions(mt) ==
    UNION { ComputeProducerAction(rel, ProducerEntries(rel, mt), ExportEntries(rel, mt)) :
                rel \in { r \in Rel : Len(ProducerEntries(r, mt)) > 0 } }
    \cup { [type |-> "DeleteStale", source |-> "export", rel |-> rel] :
                rel \in { r \in Rel : /\ Len(ExportEntries(r, mt)) > 0
                                       /\ Len(ProducerEntries(r, mt)) = 0 } }

TriggerLeft == { a \in syncActions : a.type = "TriggerSync" }

\* sync::run up to the action loop: inventory and action computation.
SyncInventory ==
    /\ phase = "start"
    /\ \E mt \in MTimeReadings : syncActions' = ComputeActions(mt)
    /\ phase' = "sync"
    /\ UNCHANGED <<cfg, share, export, quarantine, h, log, judgedClean, vmOps,
                   nEvents, proxyVars, watcherVars, otherVars, timeVars>>

\* sync::run, TriggerSync: handler.on_modified(path, source).  The actions
\* of the producer paths precede the DeleteStale actions; among themselves
\* they come in map iteration order.
SyncTrigger ==
    /\ phase = "sync"
    /\ Returned
    /\ \E a \in TriggerLeft :
          /\ h' = Enter("Modified", SharePath(a.source) \o a.rel,
                        SharePath(a.source), a.source, "sync")
          /\ syncActions' = syncActions \ {a}
    /\ log' = {}
    /\ UNCHANGED <<cfg, share, export, quarantine, phase, judgedClean, vmOps,
                   nEvents, proxyVars, watcherVars, otherVars, timeVars>>

\* sync::run, DeleteStale: fs::remove_file of the export path.
SyncDeleteStale ==
    /\ phase = "sync"
    /\ Returned
    /\ TriggerLeft = {}
    /\ \E a \in syncActions :
          /\ export' = [export EXCEPT ![a.rel] = Absent]
          /\ log' = IF export[a.rel] = Absent THEN {}
                    ELSE {RemoveEntry("export", NoVal, a.rel, export[a.rel])}
          /\ syncActions' = syncActions \ {a}
    /\ h' = [HIdle EXCEPT !.caller = "sync"]
    /\ UNCHANGED <<cfg, share, quarantine, phase, judgedClean, vmOps, nEvents, proxyVars, watcherVars, otherVars, timeVars>>

\* ChannelRunner::run after the sync pass: watcher creation, add_recursive.
StartWatching ==
    /\ phase = "sync"
    /\ Returned
    /\ syncActions = {}
    /\ phase' = "watch"
    /\ UNCHANGED <<cfg, share, export, quarantine, syncActions, h, log,
                   judgedClean, vmOps, nEvents, proxyVars, watcherVars, otherVars, timeVars>>

GateNext ==
    \/ \E p \in Producers, r \in Rel, c \in Contents : VmWrite(p, r, c)
    \/ \E p \in Producers, r \in Rel : VmDelete(p, r)
    \/ OnModified
    \/ OnDeleted
    \/ OnRenamed
    \/ OpenSource
    \/ Stage
    \/ Scan
    \/ PropCheck
    \/ PropClone
    \/ PropPersist
    \/ DelStep
    \/ Quarantine
    \/ RemoveSource

SpecGate == GateInit /\ [][GateNext]_vars

\* Channels that scan strictly and quarantine, with scanning on or off: the
\* publishing paths under every diode and consumer setting.
PublishConfigs ==
    { cf \in Configs : ~cf.permissive /\ (cf.enabled => cf.action = "quarantine") }

SpecGatePublish ==
    GateInitWith(PublishConfigs, "watch", {[r \in Rel |-> Absent]})
    /\ [][GateNext]_vars

\* Strictly scanning channels with consumers, under every infectedAction.
InfectedConfigs ==
    { cf \in Configs : cf.enabled /\ ~cf.permissive /\ cf.consumers }

SpecGateInfected ==
    GateInitWith(InfectedConfigs, "watch", {[r \in Rel |-> Absent]})
    /\ [][GateNext]_vars

\* ChannelRunner::run from its start: sync pass, then the watcher loop.
SyncNext ==
    \/ SyncInventory
    \/ SyncTrigger
    \/ SyncDeleteStale
    \/ StartWatching
    \/ GateNext

\* Channels with diode producer "a" that scan strictly and quarantine.
SyncConfigs ==
    { cf \in Configs : /\ cf.diode = {"a"}
                       /\ cf.enabled /\ ~cf.permissive
                       /\ cf.action = "quarantine" }

\* A channel without consumers never reads or writes export: it starts
\* with the empty export tree only.
SyncInit ==
    /\ GateInitWith(SyncConfigs, "start", ExportSeeds)
    /\ cfg.consumers \/ export = [r \in Rel |-> Absent]

SpecGateSync == SyncInit /\ [][SyncNext]_vars

\* ------------------------------------------------------------------------
\* Two sync passes in a row over a tree nobody else writes (gate/sync.rs,
\* run), with the modification times the file system keeps
\* ------------------------------------------------------------------------
\* Seconds that may pass while the passes run.
MaxSyncTicks == 1

\* One second passes.  Only PropPersist and the inventory read the clock,
\* so time is advanced only in front of them.
SyncTick ==
    /\ phase \in {"start", "sync"}
    /\ sy.pass > 0 \/ phase = "start"
    /\ Returned \/ h.pc = "ppersist"
    /\ sy.clock < MaxMTime + MaxSyncTicks
    /\ sy' = [sy EXCEPT !.clock = @ + 1]
    /\ UNCHANGED <<gateVars, proxyVars, watcherVars, otherVars>>

\* sync::run up to the action loop, for the n-th time: build_inventory
\* reads every file's mtime and size, compute_actions derives the actions.
SyncPass(n) ==
    /\ sy.pass = n - 1
    /\ IF n = 1 THEN phase = "start"
       ELSE phase = "sync" /\ Returned /\ syncActions = {}
    /\ syncActions' = ComputeActions(sy.mtime)
    /\ sy' = [sy EXCEPT !.pass = n,
                        !.first = IF n = 1 THEN ComputeActions(sy.mtime) ELSE @,
                        !.second = IF n = 2 THEN ComputeActions(sy.mtime) ELSE @]
    /\ phase' = "sync"
    /\ UNCHANGED <<cfg, share, export, quarantine, h, log, judgedClean, vmOps,
                   nEvents, proxyVars, watcherVars, otherVars>>

SyncFirstPass == SyncPass(1)

SyncSecondPass == SyncPass(2)

SyncTwiceNext ==
    \/ SyncFirstPass
    \/ SyncSecondPass
    \/ SyncTrigger
    \/ SyncDeleteStale
    \/ SyncTick
    \/ OpenSource
    \/ Stage
    \/ Scan
    \/ PropCheck
    \/ PropClone
    \/ PropPersist
    \/ Quarantine
    \/ RemoveSource

\* Channels that scan strictly and quarantine, under every diode and
\* consumer setting.
SyncTwiceConfigs ==
    { cf \in Configs : cf.enabled /\ ~cf.permissive /\ cf.action = "quarantine" }

\* The trees a starting daemon may find.  The producers hold at most the
\* file f, export may also hold a file g left behind by an earlier run; no
\* file is newer than the clock, and the path of an absent file carries
\* the time 1.
SyncTwiceInit ==
    /\ cfg \in SyncTwiceConfigs
    /\ share \in [Producers -> [Rel -> Contents \cup {Absent}]]
    /\ \A p \in Producers : share[p][<<NameG>>] = Absent
    /\ export \in [Rel -> {Absent, "good", "empty"}]
    /\ export[<<NameG>>] # "empty"
    /\ sy \in [clock : {MaxMTime}, mtime : [Trees -> [Rel -> MTimes]],
                pass : {0}, first : {{}}, second : {{}}]
    /\ \A p \in Producers, r \in Rel :
          share[p][r] = Absent => sy.mtime[p][r] = 1
    /\ \A r \in Rel :
          (export[r] = Absent \/ r = <<NameG>>) => sy.mtime["export"][r] = 1
    /\ quarantine = [r \in Rel |-> Absent]
    /\ phase = "start"
    /\ syncActions = {}
    /\ h = HIdle
    /\ log = {}
    /\ judgedClean = {}
    /\ vmOps = 0
    /\ nEvents = 0
    /\ parseIn = <<>>
    /\ parseOut = ParsePending
    /\ px = PxIdle
    /\ srv = SrvIdle
    /\ w = WIdle
    /\ OthersIdle

SpecSyncTwice == SyncTwiceInit /\ [][SyncTwiceNext]_vars

\* ------------------------------------------------------------------------
\* The entry checks of the handler, for events with arbitrary path strings
\* ------------------------------------------------------------------------
\* Path strings are sequences of characters; the longest name explored has
\* MaxPathLen characters.
MaxPathLen == 4

PathChars == {"/", ".", "f"}

PathStrings == UNION { [1..n -> PathChars] : n \in 0..MaxPathLen }

\* The maximal runs of characters between the "/" of s, empty runs included.
RECURSIVE SplitSlash(_)
SplitSlash(s) ==
    IF s = <<>> THEN << <<>> >>
    ELSE LET rest == SplitSlash(Tail(s)) IN
         IF Head(s) = "/" THEN << <<>> >> \o rest
         ELSE << <<Head(s)>> \o rest[1] >> \o Tail(rest)

HasRoot(s) == Len(s) > 0 /\ s[1] = "/"

\* Path::components of the path written s: RootDir for a leading "/",
\* then the non-empty runs; a run "." is kept (as CurDir) only at the very
\* start of a relative path, ".." is ParentDir.
Components(s) ==
    LET segs == SplitSlash(s)
        keep(i) == /\ segs[i] # <<>>
                   /\ segs[i] = <<".">> => (i = 1 /\ ~HasRoot(s))
        idx == SelectSeq([i \in 1..Len(segs) |-> i], keep)
    IN  (IF HasRoot(s) THEN <<RootDir>> ELSE <<>>)
        \o [k \in 1..Len(idx) |-> segs[idx[k]]]

\* PathBuf::join: an absolute name replaces the directory.
Join(dir, name) ==
    IF HasRoot(name) THEN name ELSE PathString(dir) \o <<"/">> \o name

\* Names as a path carries them: no empty run and no "." run.  A leading
\* "/" and ".." runs are included.
EventNames ==
    { s \in PathStrings :
        /\ Len(s) > 0
        /\ LET segs == SplitSlash(IF HasRoot(s) THEN Tail(s) ELSE s)
           IN  \A i \in 1..Len(segs) : segs[i] \notin {<<>>, <<".">>} }

\* The old names of the renames explored.
OldNames ==
    { <<"f">>, <<"f", ".">>, <<".", ".", "/", "f">>, <<"/", "f">> }

\* The relative paths that pass the traversal guard.
GuardRel ==
    { Components(s) : s \in { n \in EventNames : IsSafeRelativePath(Components(n)) } }

\* The directories an event may name: the producers' share roots, export.
EventDirs == { SharePath(p) : p \in Producers } \cup {ExportPath}

\* Watcher::run: dispatch of one event whose path is dir joined with name.
DispatchRaw(kind, source, dir, name, old) ==
    /\ h' = [Enter(kind, Components(Join(dir, name)),
                   Components(Join(dir, old)), source, "watch")
                EXCEPT !.evBase = dir, !.ev = name, !.evOld = old]
    /\ log' = {}
    /\ nEvents' = nEvents + 1
    /\ UNCHANGED <<cfg, share, export, quarantine, phase, syncActions,
                   judgedClean, vmOps, proxyVars, watcherVars, otherVars, timeVars>>

\* One event is explored per run.
MayDispatch == phase = "watch" /\ h = HIdle /\ nEvents = 0

RawModified ==
    /\ MayDispatch
    /\ \E s \in Producers, d \in EventDirs, n \in EventNames :
        DispatchRaw("Modified", s, d, n, <<>>)

RawDeleted ==
    /\ MayDispatch
    /\ \E s \in Producers, d \in EventDirs, n \in EventNames :
        DispatchRaw("Deleted", s, d, n, <<>>)

RawRenamed ==
    /\ MayDispatch
    /\ \E s \in Producers, d \in EventDirs, n \in EventNames, o \in OldNames :
        DispatchRaw("Renamed", s, d, n, o)

GuardNext ==
    \/ RawModified
    \/ RawDeleted
    \/ RawRenamed
    \/ OpenSource
    \/ Stage
    \/ Scan
    \/ PropCheck
    \/ PropClone
    \/ PropPersist
    \/ DelStep
    \/ Quarantine
    \/ RemoveSource

\* ignoreFilePatterns / ignorePathPatterns settings explored.
PatternSets == { {}, {<<"f", "/">>}, {<<".", "f">>} }

\* Channels that scan strictly and quarantine, under every diode and
\* consumer setting and every pair of pattern lists.
GuardConfigs ==
    [diode : {{}, {"a"}}, consumers : BOOLEAN, enabled : {TRUE},
     permissive : {FALSE}, action : {"quarantine"},
     ignoreFile : PatternSets, ignorePath : PatternSets]

\* The files of the channel when the event arrives: f everywhere (infected
\* in a), f. in a, and .f/f in a and in export.
GuardFiles(tree) ==
    [r \in GuardRel |->
        CASE r = << <<"f">> >> -> IF tree = "a" THEN "evil" ELSE "good"
          [] r = << <<".", "f">>, <<"f">> >> ->
                IF tree = "b" THEN Absent ELSE "good"
          [] r = << <<"f", ".">> >> -> IF tree = "a" THEN "good" ELSE Absent
          [] OTHER -> Absent]

GuardInit ==
    /\ cfg \in GuardConfigs
    /\ share = [p \in Producers |-> GuardFiles(p)]
    /\ export = GuardFiles("export")
    /\ quarantine = [r \in GuardRel |-> Absent]
    /\ phase = "watch"
    /\ syncActions = {}
    /\ h = HIdle
    /\ log = {}
    /\ judgedClean = {}
    /\ vmOps = 0
    /\ nEvents = 0
    /\ parseIn = <<>>
    /\ parseOut = ParsePending
    /\ px = PxIdle
    /\ srv = SrvIdle
    /\ w = WIdle
    /\ sy = SyIdle
    /\ OthersIdle

SpecGateGuard == GuardInit /\ [][GuardNext]_vars

\* ------------------------------------------------------------------------
\* Properties of the gate
\* ------------------------------------------------------------------------
Installs == { e \in log : e.op = "install" }
Published == { e \in Installs : e.root \in {"share", "export"} }
Removes == { e \in log : e.op = "remove" }

\* C1: in a channel with scanning enabled and permissive = false, every
\* non-empty file the handler installs into a peer's share subtree or into
\* export has content that the scanner judged Clean.
C1_OnlyJudgedCleanPublished ==
    (cfg.enabled /\ ~cfg.permissive) =>
        \A e \in Published : FileLen(e.content) > 0 => e.content \in judgedClean

\* C2: for a Modified event, the content installed at every destination is
\* the content of the staging clone, which is what the scanner was handed;
\* the temporary file of an install in progress is a clone of the staging
\* file, not of the live source.
C2_InstallsAreTheStagedBytes ==
    h.kind = "Modified" =>
        /\ \A e \in Installs :
              /\ e.content = h.staged
              /\ h.scanned # NoVal => e.content = h.scanned
        /\ h.pc = "ppersist" => h.tmp = h.staged

\* A Modified call that has installed the scanned snapshot at one
\* destination and is installing at the next, while the producer has
\* meanwhile written different bytes into the still-open source file.
C2_Witness ==
    /\ h.kind = "Modified"
    /\ h.pc = "ppersist"
    /\ h.scanned = h.staged
    /\ Published # {}
    /\ h.srcLinked
    /\ h.srcContent # h.staged

\* C3: when on_modified ends with verdict Clean for a non-diode source s at
\* path r and no I/O step failed, it has installed the staged content at
\* share/p/r for exactly the producers p other than s that are not diode
\* producers, at export/r exactly if consumers exist, and has written or
\* removed nothing else.
C3_CleanReachesExactlyThePeers ==
    (/\ h.pc = "done" /\ h.kind = "Modified" /\ h.verdict = "Clean"
     /\ ~h.ioFailed /\ ~IsDiode(h.source)) =>
        /\ \A p \in Producers :
              (p # h.source /\ ~IsDiode(p)) <=>
              (\E e \in Installs : e.root = "share" /\ e.prod = p)
        /\ cfg.consumers <=> (\E e \in Installs : e.root = "export")
        /\ \A e \in log :
              /\ e.op = "install"
              /\ e.root \in {"share", "export"}
              /\ e.rel = h.rel
              /\ e.content = h.staged

\* A scanned-clean file of a non-diode source has been installed at a peer
\* and in export.
C3_Witness ==
    /\ h.pc = "done" /\ h.kind = "Modified" /\ h.verdict = "Clean"
    /\ h.scanned = h.staged
    /\ ~h.ioFailed /\ ~IsDiode(h.source)
    /\ \E e \in Installs : e.root = "share"
    /\ \E e \in Installs : e.root = "export"

SourceRemoved ==
    \E e \in Removes : e.root = "share" /\ e.prod = h.source /\ e.rel = h.rel

Quarantined ==
    \E e \in Installs :
        e.root = "quarantine" /\ e.rel = h.rel /\ e.content = h.staged

C5_DiodeSubtreeIsNeverATarget ==
    /\ \A e \in log :
          (e.root = "share" /\ IsDiode(e.prod)) =>
              /\ e.op = "remove"
              /\ e.prod = h.source
              /\ h.kind = "Modified"
    /\ (h.pc \in {"pcheck", "pclone", "ppersist", "del"} /\ ~IsExportTarget(h.ti))
          => ~IsDiode(ProducerOrder[h.ti])

\* A sync-triggered on_modified for a file of a non-diode producer has
\* published it while the diode producer does not hold that path.
C5_Witness ==
    /\ h.pc = "done"
    /\ h.caller = "sync"
    /\ cfg.diode # {}
    /\ ~IsDiode(h.source)
    /\ Published # {}
    /\ \A d \in cfg.diode : share[d][h.rel] = Absent

\* C6: when the source of a Modified or Renamed event is a diode producer,
\* no install replaces a file that exists at the destination.
C6_DiodeSourceNeverReplaces ==
    (h.kind \in {"Modified", "Renamed"} /\ IsDiode(h.source)) =>
        \A e \in Published : ~e.replaced
\* ========================================================================
\* vproxy (vproxy/main.rs)
\* ========================================================================
\* Bytes are numbers 0..255; a buffer is a sequence of bytes.
Delimiters == {0, 10}                              \* b'\0', b'\n'

ZInstream == <<122, 73, 78, 83, 84, 82, 69, 65, 77, 0>>     \* b"zINSTREAM\0"
NInstream == <<110, 73, 78, 83, 84, 82, 69, 65, 77, 10>>    \* b"nINSTREAM\n"
ZPing == <<122, 80, 73, 78, 71, 0>>                         \* b"zPING\0"
NPing == <<110, 80, 73, 78, 71, 10>>                        \* b"nPING\n"
ZVersion == <<122, 86, 69, 82, 83, 73, 79, 78, 0>>          \* b"zVERSION\0"
NVersion == <<110, 86, 69, 82, 83, 73, 79, 78, 10>>         \* b"nVERSION\n"

ParseNone == [cmd |-> "None", len |-> 0]

\* Iterator::position of the first delimiter, 1-based; 0 if there is none.
DelimPos(buf) ==
    IF \E i \in 1..Len(buf) : buf[i] \in Delimiters
    THEN CHOOSE i \in 1..Len(buf) :
            /\ buf[i] \in Delimiters
            /\ \A j \in 1..(i - 1) : buf[j] \notin Delimiters
    ELSE 0

\* Faulty variant: the command word is compared without its prefix and
\* delimiter bytes, so that any prefix may be paired with any delimiter.
ParseAnyDelimiter(buf) ==
    LET pos == DelimPos(buf)
        word == SubSeq(buf, 2, pos - 1)
    IN  IF pos = 0 \/ buf[1] \notin {122, 110} THEN ParseNone
        ELSE CASE word = SubSeq(ZInstream, 2, 9) -> [cmd |-> "Instream", len |-> 10]
               [] word = SubSeq(ZPing, 2, 5) -> [cmd |-> "Ping", len |-> 6]
               [] word = SubSeq(ZVersion, 2, 8) -> [cmd |-> "Version", len |-> 9]
               [] OTHER -> ParseNone

\* Command::parse: Some((command, length)) or None.
Parse(buf) ==
    LET pos == DelimPos(buf)
        head == SubSeq(buf, 1, pos)
    IN  IF pos = 0 THEN ParseNone
        ELSE CASE head \in {ZInstream, NInstream} -> [cmd |-> "Instream", len |-> 10]
               [] head \in {ZPing, NPing} -> [cmd |-> "Ping", len |-> 6]
               [] head \in {ZVersion, NVersion} -> [cmd |-> "Version", len |-> 9]
               [] OTHER -> ParseNone

\* ------------------------------------------------------------------------
\* Command::parse on its own
\* ------------------------------------------------------------------------
\* Commands the proxy must refuse: b"zSHUTDOWN\0", b"nRELOAD\n",
\* b"zSCAN /\0" and the 11-byte b"zMULTISCAN\0".
ZShutdown == <<122, 83, 72, 85, 84, 68, 79, 87, 78, 0>>
NReload == <<110, 82, 69, 76, 79, 65, 68, 10>>
ZScanPath == <<122, 83, 67, 65, 78, 32, 47, 0>>
ZMultiscan == <<122, 77, 85, 76, 84, 73, 83, 67, 65, 78, 0>>

AllowedTokens == {ZInstream, NInstream, ZPing, NPing, ZVersion, NVersion}
DeniedCommands == {ZShutdown, NReload, ZScanPath, ZMultiscan}

\* Buffers are explored up to MaxEdits single-byte edits away from an
\* allowed or denied command.
MaxEdits == 1

\* Bytes used by edits: the delimiters, the prefixes, space, lower-case p.
EditBytes == {0, 10, 32, 110, 112, 122}

Edits(b) ==
    { [b EXCEPT ![i] = x] : i \in 1..Len(b), x \in EditBytes }
    \cup { SubSeq(b, 1, i) \o <<x>> \o SubSeq(b, i + 1, Len(b)) :
                i \in 0..Len(b), x \in EditBytes }
    \cup { SubSeq(b, 1, i - 1) \o SubSeq(b, i + 1, Len(b)) : i \in 1..Len(b) }

RECURSIVE BuffersWithin(_)
BuffersWithin(k) ==
    IF k = 0 THEN AllowedTokens \cup DeniedCommands \cup {<<>>}
    ELSE LET prev == BuffersWithin(k - 1)
         IN  prev \cup UNION { Edits(b) : b \in prev }

\* The gate's variables while only the proxy is exercised: one channel,
\* never started.
GateIdle ==
    GateVarsInit({ cf \in Configs : cf.diode = {} /\ cf.consumers /\ ~cf.enabled },
                 "start", {[r \in Rel |-> Absent]})

ParseInit ==
    /\ parseIn \in BuffersWithin(MaxEdits)
    /\ parseOut = ParsePending
    /\ px = PxIdle
    /\ srv = SrvIdle
    /\ w = WIdle
    /\ sy = SyIdle
    /\ OthersIdle
    /\ GateIdle

ParseCommand ==
    /\ parseOut = ParsePending
    /\ parseOut' = Parse(parseIn)
    /\ UNCHANGED <<gateVars, watcherVars, otherVars, timeVars, parseIn, px, srv>>

SpecParse == ParseInit /\ [][ParseCommand]_vars

\* C8: Command::parse returns a command exactly for the buffers whose bytes
\* up to and including the first NUL or newline are one of the six
\* whitelisted tokens, together with that token's length, and None for
\* every other buffer.
C8_ParseAcceptsExactlyTheSixTokens ==
    parseOut # ParsePending =>
        LET firsts == { k \in 1..Len(parseIn) :
                          /\ parseIn[k] \in {0, 10}
                          /\ \A j \in 1..(k - 1) : parseIn[j] \notin {0, 10} }
            token(k) == SubSeq(parseIn, 1, k)
            name(t) == CASE t \in {ZInstream, NInstream} -> "Instream"
                         [] t \in {ZPing, NPing} -> "Ping"
                         [] t \in {ZVersion, NVersion} -> "Version"
        IN  IF \E k \in firsts : token(k) \in AllowedTokens
            THEN \A k \in firsts :
                    parseOut = [cmd |-> name(token(k)), len |-> Len(token(k))]
            ELSE parseOut = ParseNone

\* A whitelisted token followed by a further byte has been accepted with
\* the token's own length.
C8_Witness ==
    /\ parseOut.cmd = "Instream"
    /\ Len(parseIn) > parseOut.len
    /\ parseOut.len = Len(ZInstream)

\* ------------------------------------------------------------------------
\* One proxy connection: handle_connection
\* ------------------------------------------------------------------------
MAX_COMMAND_LEN == 10
CHUNK_READ_BUFFER_SIZE == 8192

\* StreamLimits of the explored proxy (cli.max_chunk_size,
\* cli.max_stream_size), and the longest chunk sequence a guest sends.
MaxChunkSize == 2
MaxStreamSize == 3
MaxChunks == 3

ErrNotAllowed == "ERROR: Command not allowed\n"
ErrCommandTimeout == "ERROR: Command timeout\n"
ClamdResponse == "<clamd response>"

Min(a, b) == IF a <= b THEN a ELSE b

RECURSIVE Sum(_)
Sum(q) == IF Len(q) = 0 THEN 0 ELSE q[1] + Sum(Tail(q))

IsPrefix(a, b) == Len(a) <= Len(b) /\ SubSeq(b, 1, Len(a)) = a

\* u32::to_be_bytes and Buf::get_u32.
ToBeBytes(v) ==
    << (v \div 16777216) % 256, (v \div 65536) % 256, (v \div 256) % 256, v % 256 >>

GetU32(b) == b[1] * 16777216 + b[2] * 65536 + b[3] * 256 + b[4]

\* ---- what a guest sends -------------------------------------------------
\* The payload of a chunk of n bytes: 1, 2, .., n.
ChunkData(n) == [i \in 1..n |-> i]

\* Declared chunk lengths a guest uses: up to one above the chunk limit,
\* and 256, whose header has a non-zero third byte.  (The guest announcing
\* 256 bytes sends none of them.)
HeaderValues == 0..(MaxChunkSize + 1) \cup {256}

ChunkBytes(n) == ToBeBytes(n) \o (IF n = 256 THEN <<>> ELSE ChunkData(n))

\* Chunk sequences: non-zero chunks, then possibly the zero terminator.
RECURSIVE ChunkPlans(_)
ChunkPlans(k) ==
    IF k = 0 THEN {<<>>}
    ELSE LET shorter == ChunkPlans(k - 1)
         IN  shorter \cup { Append(q, v) :
                               q \in { x \in shorter : \A i \in 1..Len(x) : x[i] # 0 },
                               v \in HeaderValues }

RECURSIVE StreamBytes(_)
StreamBytes(q) ==
    IF Len(q) = 0 THEN <<>> ELSE ChunkBytes(q[1]) \o StreamBytes(Tail(q))

\* A complete stream may be followed by one more byte.
GuestStreams ==
    LET plain == { StreamBytes(q) : q \in ChunkPlans(MaxChunks) }
    IN  plain \cup { StreamBytes(q) \o <<7>> :
                        q \in { x \in ChunkPlans(MaxChunks) :
                                   Len(x) > 0 /\ x[Len(x)] = 0 } }

\* Everything a guest may intend to send on one connection.
GuestPlans ==
    { c \o st : c \in {ZInstream, NInstream}, st \in GuestStreams }
    \cup { ZPing, NPing, ZVersion, NVersion, ZPing \o <<120>>, NVersion \o NPing }
    \cup DeniedCommands
    \cup { SubSeq(ZPing, 1, 5), SubSeq(ZPing, 1, 5) \o <<10>>, <<>> }

\* ---- the handler --------------------------------------------------------
PxStart(plan) ==
    [pc |-> "cmd", plan |-> plan, guest |-> plan, guestOpen |-> TRUE,
     cmdBuf |-> <<>>, command |-> ParsePending, connects |-> 0,
     toClamd |-> <<>>, pending |-> <<>>, total |-> 0, remaining |-> 0,
     chunkSize |-> 0, fwdSizes |-> <<>>, toClient |-> <<>>,
     result |-> "running", timedOut |-> FALSE]

ProxyInit ==
    /\ px \in { PxStart(plan) : plan \in GuestPlans }
    /\ parseIn = <<>>
    /\ parseOut = ParsePending
    /\ srv = SrvIdle
    /\ w = WIdle
    /\ sy = SyIdle
    /\ OthersIdle
    /\ GateIdle

\* The handler returns: the client stream and the scanner stream are
\* dropped.
Finish(c, result) == [c EXCEPT !.pc = "closed", !.result = result]

Reply(c, line, result) ==
    Finish([c EXCEPT !.toClient = Append(@, line)], result)

\* What read() can return for a buffer of cap bytes: some of the bytes the
\* guest has sent, or 0 once the guest has closed.
ReadSizes(c, cap) ==
    IF Len(c.guest) > 0 THEN 1..Min(cap, Len(c.guest))
    ELSE IF c.guestOpen THEN {} ELSE {0}

\* Faulty variant: the bytes of one read in reverse order.
TakeReversed(c, n) == [i \in 1..n |-> c.guest[n + 1 - i]]

Take(c, n) == SubSeq(c.guest, 1, n)
Drop(c, n) == SubSeq(c.guest, n + 1, Len(c.guest))

\* Faulty variant: a denylist instead of the whitelist.
ValidateDenylist(buf) ==
    LET pos == DelimPos(buf) IN
    IF \E d \in DeniedCommands : IsPrefix(SubSeq(d, 2, 5), SubSeq(buf, 2, Len(buf)))
    THEN [ok |-> FALSE, cmd |-> "None", len |-> 0]
    ELSE [ok |-> TRUE,
          cmd |-> IF Parse(buf).cmd = "Instream" THEN "Instream" ELSE "Ping",
          len |-> pos]

\* handle_connection after the command has been read: Command::parse and
\* the rejection of bytes that follow a PING or VERSION.
Validate(buf) ==
    LET r == Parse(buf) IN
    IF r = ParseNone THEN [ok |-> FALSE, cmd |-> "None", len |-> 0]
    ELSE IF r.cmd # "Instream" /\ Len(buf) > r.len
    THEN [ok |-> FALSE, cmd |-> r.cmd, len |-> r.len]
    ELSE [ok |-> TRUE, cmd |-> r.cmd, len |-> r.len]

\* One client.read of the command loop, with what follows it without
\* another read: the delimiter test, the length test at the loop head,
\* parsing and validation.
AfterCommandRead(c, n) ==
    IF n = 0
    THEN Finish(c, IF Len(c.cmdBuf) = 0 THEN "client disconnected"
                   ELSE "client disconnected mid-command")
    ELSE LET new == Take(c, n)
             buf == c.cmdBuf \o new
             c1 == [c EXCEPT !.cmdBuf = buf, !.guest = Drop(c, n)]
         IN  IF \E i \in 1..n : new[i] \in Delimiters
             THEN LET v == Validate(buf) IN
                  IF v.ok
                  THEN [c1 EXCEPT !.command = [cmd |-> v.cmd, len |-> v.len],
                                  !.pending = SubSeq(buf, v.len + 1, Len(buf)),
                                  !.pc = "connect"]
                  ELSE Reply(c1, ErrNotAllowed, "command not allowed")
             ELSE IF Len(buf) >= MAX_COMMAND_LEN
             THEN Finish(c1, "command too long")
             ELSE c1

PUnchanged == UNCHANGED <<gateVars, watcherVars, otherVars, timeVars, parseIn, parseOut, srv>>

ReadCommand ==
    /\ px.pc = "cmd"
    /\ \E n \in ReadSizes(px, MAX_COMMAND_LEN - Len(px.cmdBuf)) :
          px' = AfterCommandRead(px, n)
    /\ PUnchanged

\* limits.command_timeout expires while the command is being read.
CommandTimeout ==
    /\ px.pc = "cmd"
    /\ px' = Reply([px EXCEPT !.timedOut = TRUE], ErrCommandTimeout,
                   "command timeout")
    /\ PUnchanged

\* The guest closes its end without sending the rest.
GuestCloses ==
    /\ px.pc \notin {"off", "closed"}
    /\ px.guestOpen
    /\ px' = [px EXCEPT !.guestOpen = FALSE, !.guest = <<>>]
    /\ PUnchanged

\* UnixStream::connect(clamd_path) under limits.read_timeout.
Connect ==
    /\ px.pc = "connect"
    /\ \E ok \in BOOLEAN :
          px' = IF ok THEN [px EXCEPT !.connects = @ + 1, !.pc = "fwdcmd"]
                ELSE Finish(px, "Failed to connect to clamd")
    /\ PUnchanged

\* clamd.write_all(&buf[..command_len]).
ForwardCommand ==
    /\ px.pc = "fwdcmd"
    /\ \E ok \in BOOLEAN :
          px' = IF ok
                THEN [px EXCEPT !.toClamd = @ \o SubSeq(px.cmdBuf, 1, px.command.len),
                                !.pc = IF px.command.cmd = "Instream" THEN "hdr"
                                       ELSE "resp"]
                ELSE Finish(px, "Failed to forward command to clamd")
    /\ PUnchanged

\* ---- handle_instream ---------------------------------------------------
\* Faulty variants of the limit tests: an off-by-one chunk test, and a
\* stream test that looks at the bytes forwarded so far only.
ExceedsChunkLimitLoose(chunk_size) == chunk_size > MaxChunkSize + 1

ExceedsStreamLimitLate(total, chunk_size) == total > MaxStreamSize

ExceedsChunkLimit(chunk_size) == chunk_size > MaxChunkSize

ExceedsStreamLimit(total, chunk_size) == total + chunk_size > MaxStreamSize

\* The header loop: client.read into a 4-byte buffer while fewer than four
\* bytes are pending.
ReadHeader ==
    /\ px.pc = "hdr"
    /\ Len(px.pending) < 4
    /\ \E n \in ReadSizes(px, 4) :
          px' = IF n = 0
                THEN Finish(px, "Client disconnected during chunk header")
                ELSE [px EXCEPT !.pending = @ \o Take(px, n),
                                !.guest = Drop(px, n)]
    /\ PUnchanged

\* A complete header is pending: get_u32, the two limit tests, the header
\* forwarded to the scanner, then the part of the chunk already pending.
AfterHeader(c, ok) ==
    LET chunk_size == GetU32(c.pending)
        rest == SubSeq(c.pending, 5, Len(c.pending))
        c1 == [c EXCEPT !.chunkSize = chunk_size, !.pending = rest]
    IN  IF ExceedsChunkLimit(chunk_size)
        THEN Finish(c1, "Chunk size exceeds limit")
        ELSE IF ExceedsStreamLimit(c.total, chunk_size)
        THEN Finish(c1, "Stream size exceeds limit")
        ELSE IF ~ok THEN Finish(c1, "Failed to forward to clamd")
        ELSE LET c2 == [c1 EXCEPT !.toClamd = @ \o ToBeBytes(chunk_size),
                                  !.fwdSizes = Append(@, chunk_size)]
             IN  IF chunk_size = 0 THEN [c2 EXCEPT !.pc = "resp"]
                 ELSE LET use_len == Min(Len(rest), chunk_size)
                      IN  [c2 EXCEPT !.total = @ + chunk_size,
                                     !.toClamd = @ \o SubSeq(rest, 1, use_len),
                                     !.pending = SubSeq(rest, use_len + 1, Len(rest)),
                                     !.remaining = chunk_size - use_len,
                                     !.pc = IF chunk_size - use_len > 0 THEN "data"
                                            ELSE "hdr"]

ProcessHeader ==
    /\ px.pc = "hdr"
    /\ Len(px.pending) >= 4
    /\ \E ok \in BOOLEAN : px' = AfterHeader(px, ok)
    /\ PUnchanged

\* The data loop: one client.read of at most `remaining` bytes, forwarded.
ReadData ==
    /\ px.pc = "data"
    /\ \E n \in ReadSizes(px, Min(CHUNK_READ_BUFFER_SIZE, px.remaining)),
          ok \in BOOLEAN :
          px' = IF n = 0 THEN Finish(px, "Client disconnected during transfer")
                ELSE IF ~ok
                THEN Finish([px EXCEPT !.guest = Drop(px, n)],
                            "Failed to forward to clamd")
                ELSE [px EXCEPT !.toClamd = @ \o Take(px, n),
                                !.guest = Drop(px, n),
                                !.remaining = @ - n,
                                !.pc = IF px.remaining - n > 0 THEN "data" ELSE "hdr"]
    /\ PUnchanged

\* limits.read_timeout expires in a client.read: the guest is connected
\* and has sent nothing more.
ReadTimeout ==
    /\ \/ px.pc = "hdr" /\ Len(px.pending) < 4
       \/ px.pc = "data"
    /\ px.guestOpen
    /\ Len(px.guest) = 0
    /\ px' = Finish([px EXCEPT !.timedOut = TRUE],
                    IF px.pc = "hdr" THEN "Timeout reading chunk header"
                    ELSE "Timeout reading chunk data")
    /\ PUnchanged

\* limits.stream_timeout expires anywhere in handle_instream.
StreamTimeout ==
    /\ px.pc \in {"hdr", "data", "resp"}
    /\ px.command.cmd = "Instream"
    /\ px' = Finish([px EXCEPT !.timedOut = TRUE], "INSTREAM timeout exceeded")
    /\ PUnchanged

\* clamd.read of the response under limits.read_timeout, then
\* client.write_all (handle_simple_response and the end of handle_instream).
Response ==
    /\ px.pc = "resp"
    /\ \E got \in {"response", "timeout", "error"} :
          px' = CASE got = "response" -> Reply(px, ClamdResponse, "ok")
                  [] got = "timeout" ->
                        Finish([px EXCEPT !.timedOut = TRUE],
                               "Timeout reading clamd response")
                  [] got = "error" -> Finish(px, "Failed to read clamd response")
    /\ PUnchanged

ProxyNext ==
    \/ ReadCommand
    \/ CommandTimeout
    \/ GuestCloses
    \/ Connect
    \/ ForwardCommand
    \/ ReadHeader
    \/ ProcessHeader
    \/ ReadData
    \/ ReadTimeout
    \/ StreamTimeout
    \/ Response

SpecProxy == ProxyInit /\ [][ProxyNext]_vars

\* ------------------------------------------------------------------------
\* Properties of the proxy
\* ------------------------------------------------------------------------
\* The command a guest plan starts with: its bytes through the first
\* delimiter (empty if the plan has no delimiter).
PlannedCommand == SubSeq(px.plan, 1, DelimPos(px.plan))

\* C7: the proxy opens a scanner connection, and writes to it, only on a
\* connection whose first command is a whitelisted token, and only after
\* that command has been parsed and validated; the first bytes the scanner
\* receives are that token.
C7_ScannerOnlyAfterWhitelistedCommand ==
    (px.connects > 0 \/ px.toClamd # <<>> \/ px.pc \in {"connect", "fwdcmd"}) =>
        /\ PlannedCommand \in AllowedTokens
        /\ px.command.cmd \in {"Instream", "Ping", "Version"}
        /\ px.command.len = Len(PlannedCommand)
        /\ px.toClamd # <<>> => IsPrefix(PlannedCommand, px.toClamd)

\* The connection of a guest that sent zSHUTDOWN has been closed with the
\* rejection line, the scanner never connected.
C7_Witness ==
    /\ px.pc = "closed"
    /\ PlannedCommand = ZShutdown
    /\ px.toClient = <<ErrNotAllowed>>
    /\ px.connects = 0
    /\ px.toClamd = <<>>

\* C9: a connection on which the guest sent a complete command other than
\* the six whitelisted tokens (and neither went away nor ran into a
\* timeout) has received exactly the line ERROR: Command not allowed when
\* the proxy closes it.
C9_OtherCommandsGetNotAllowed ==
    (/\ px.pc = "closed"
     /\ px.guestOpen /\ ~px.timedOut
     /\ DelimPos(px.plan) > 0
     /\ PlannedCommand \notin AllowedTokens) =>
        px.toClient = <<ErrNotAllowed>>

\* C10: no forwarded chunk header declares more than max_chunk_size, the
\* declared lengths forwarded on the connection sum to at most
\* max_stream_size, and a header is refused for a limit only if it is
\* above that limit.
C10_ForwardedChunksWithinLimits ==
    px.pc # "off" =>
        /\ \A i \in 1..Len(px.fwdSizes) : px.fwdSizes[i] <= MaxChunkSize
        /\ Sum(px.fwdSizes) <= MaxStreamSize
        /\ px.total = Sum(px.fwdSizes)
        /\ px.result = "Chunk size exceeds limit" => px.chunkSize > MaxChunkSize
        /\ px.result = "Stream size exceeds limit" =>
              px.total + px.chunkSize > MaxStreamSize

\* A stream of exactly max_stream_size bytes containing a chunk of exactly
\* max_chunk_size has been forwarded completely and answered.
C10_Witness ==
    /\ px.pc = "closed"
    /\ px.result = "ok"
    /\ px.command.cmd = "Instream"
    /\ Sum(px.fwdSizes) = MaxStreamSize
    /\ \E i \in 1..Len(px.fwdSizes) : px.fwdSizes[i] = MaxChunkSize

\* The ways a guest can violate a limit of the proxy, by the error the
\* handler finishes with.
LimitViolations ==
    {"command timeout", "Chunk size exceeds limit", "Stream size exceeds limit",
     "Timeout reading chunk header", "Timeout reading chunk data",
     "INSTREAM timeout exceeded"}

\* C11: a connection that the proxy closed because the guest violated a
\* limit (a chunk header above max_chunk_size, a cumulative size above
\* max_stream_size, a command, read or stream timeout) has been sent an
\* error line as the last thing written to the guest.
C11_LimitViolationGetsErrorLine ==
    (px.pc = "closed" /\ px.result \in LimitViolations) =>
        /\ px.toClient # <<>>
        /\ px.toClient[Len(px.toClient)] # ClamdResponse

\* ------------------------------------------------------------------------
\* vproxy main: the semaphore and the accept loop
\* ------------------------------------------------------------------------
\* cli.max_connections, and the number of guest connections that arrive.
MaxConnections == 2
MaxArrivals == 4

ConnIds == 1..MaxArrivals

\* The errors handle_connection can finish with before it has connected to
\* the scanner, and after.
CommandResults ==
    {"client disconnected", "client disconnected mid-command",
     "command too long", "command timeout", "command not allowed"}

ConnectResults == {"Failed to connect to clamd", "Timeout connecting to clamd"}

StreamResults ==
    {"ok", "Failed to forward command to clamd", "Failed to forward to clamd",
     "Chunk size exceeds limit", "Stream size exceeds limit",
     "Timeout reading chunk header", "Timeout reading chunk data",
     "Client disconnected during chunk header",
     "Client disconnected during transfer", "INSTREAM timeout exceeded",
     "Timeout reading clamd response", "Failed to read clamd response"}

\* handle_connection returns Ok(()) for these, Err for the others.
ReturnsOk(result) == result \in CommandResults \cup {"ok"}

\* The ways a handler can finish, as the task sees them.
FinishKind(result) ==
    CASE result = "ok" -> "completed"
      [] result \in {"command not allowed", "command too long"} -> "rejected"
      [] result \in {"Chunk size exceeds limit", "Stream size exceeds limit"} ->
            "limit"
      [] result \in {"client disconnected", "client disconnected mid-command",
                     "Client disconnected during chunk header",
                     "Client disconnected during transfer"} -> "disconnect"
      [] result \in {"command timeout", "Timeout reading chunk header",
                     "Timeout reading chunk data",
                     "INSTREAM timeout exceeded"} -> "timeout"
      [] OTHER -> "scanner failure"

Finished(result) == [ok |-> ReturnsOk(result), kind |-> FinishKind(result)]

NotFinished == [ok |-> FALSE, kind |-> "none"]

\* Semaphore::new(cli.max_connections); nothing accepted yet.
SrvStart ==
    [loop |-> "running", permits |-> MaxConnections, arrivals |-> 0,
     conn_counter |-> 0,
     stage |-> [i \in ConnIds |-> "none"],
     result |-> [i \in ConnIds |-> NotFinished],
     scanner |-> {},
     lastFinished |-> NotFinished,
     permitsAtAccept |-> [i \in ConnIds |-> 0]]

AcceptInit ==
    /\ srv = SrvStart
    /\ px = PxIdle
    /\ parseIn = <<>>
    /\ parseOut = ParsePending
    /\ w = WIdle
    /\ sy = SyIdle
    /\ OthersIdle
    /\ GateIdle

\* The connection tasks that hold a permit.
InFlight == { i \in ConnIds : srv.stage[i] \in {"cmd", "connect", "stream", "returned"} }

\* Faulty variant: acquire waits in a queue instead of failing.
TryAcquireQueues(permits) == TRUE

\* semaphore.try_acquire_owned(): succeeds iff a permit is free.
TryAcquire(permits) == permits > 0

\* Faulty variant: the permit is released only when the handler returned Ok.
AfterTaskLeaks(s, i) ==
    [s EXCEPT !.stage[i] = "done", !.result[i] = NotFinished,
              !.lastFinished = s.result[i],
              !.permits = IF s.result[i].ok THEN @ + 1 ELSE @]

\* The end of the spawned task: the error is logged, then drop(permit).
AfterTask(s, i) ==
    [s EXCEPT !.stage[i] = "done", !.result[i] = NotFinished,
              !.lastFinished = s.result[i],
              !.permits = @ + 1]

SUnchanged == UNCHANGED <<gateVars, watcherVars, otherVars, timeVars, parseIn, parseOut, px>>

\* listener.accept() returns a connection: try_acquire_owned, then either
\* the task is spawned with the permit or the stream is dropped and the
\* loop continues.
Accept ==
    /\ srv.loop = "running"
    /\ srv.arrivals < MaxArrivals
    /\ LET i == srv.arrivals + 1
           s == [srv EXCEPT !.arrivals = i, !.permitsAtAccept[i] = srv.permits]
       IN  srv' = IF TryAcquire(srv.permits)
                  THEN [s EXCEPT !.permits = @ - 1,
                                 !.conn_counter = @ + 1,
                                 !.stage[i] = "cmd"]
                  ELSE [s EXCEPT !.stage[i] = "dropped"]
    /\ SUnchanged

\* listener.accept() returns an error: main returns it.
AcceptFails ==
    /\ srv.loop = "running"
    /\ srv' = [srv EXCEPT !.loop = "failed"]
    /\ SUnchanged

\* wait_for_shutdown() completes: the loop breaks.
Shutdown ==
    /\ srv.loop = "running"
    /\ srv' = [srv EXCEPT !.loop = "stopped"]
    /\ SUnchanged

\* handle_connection up to the scanner connection: the command is read,
\* parsed and validated, or the handler returns.
TaskCommand(i) ==
    /\ srv.loop = "running"
    /\ srv.stage[i] = "cmd"
    /\ \/ srv' = [srv EXCEPT !.stage[i] = "connect"]
       \/ \E res \in CommandResults :
             srv' = [srv EXCEPT !.stage[i] = "returned", !.result[i] = Finished(res)]
    /\ SUnchanged

\* UnixStream::connect(clamd_path) under limits.read_timeout.
TaskConnect(i) ==
    /\ srv.loop = "running"
    /\ srv.stage[i] = "connect"
    /\ \/ srv' = [srv EXCEPT !.stage[i] = "stream", !.scanner = @ \cup {i}]
       \/ \E res \in ConnectResults :
             srv' = [srv EXCEPT !.stage[i] = "returned", !.result[i] = Finished(res)]
    /\ SUnchanged

\* The rest of handle_connection; when it returns, the client stream and
\* the scanner stream are dropped.
TaskReturns(i) ==
    /\ srv.loop = "running"
    /\ srv.stage[i] = "stream"
    /\ \E res \in StreamResults :
          srv' = [srv EXCEPT !.stage[i] = "returned", !.result[i] = Finished(res),
                             !.scanner = @ \ {i}]
    /\ SUnchanged

TaskEnds(i) ==
    /\ srv.loop = "running"
    /\ srv.stage[i] = "returned"
    /\ srv' = AfterTask(srv, i)
    /\ SUnchanged

AcceptNext ==
    \/ Accept
    \/ AcceptFails
    \/ Shutdown
    \/ \E i \in ConnIds : TaskCommand(i)
    \/ \E i \in ConnIds : TaskConnect(i)
    \/ \E i \in ConnIds : TaskReturns(i)
    \/ \E i \in ConnIds : TaskEnds(i)

SpecAccept == AcceptInit /\ [][AcceptNext]_vars

\* C12: free permits plus the tasks between accept and the end of their
\* handler always equal max_connections, whatever way each handler
\* finished; a scanner connection is open only for a task whose handler is
\* still running; and a connection that arrives when fewer than
\* max_connections tasks are in flight is accepted.
C12_PermitsPlusInFlightIsMax ==
    srv.loop # "off" =>
        /\ srv.permits + Cardinality(InFlight) = MaxConnections
        /\ srv.scanner \subseteq { i \in InFlight : srv.stage[i] = "stream" }
        /\ \A i \in ConnIds :
              /\ srv.stage[i] = "returned" <=> srv.result[i] # NotFinished
              /\ srv.stage[i] = "dropped" =>
                    srv.permitsAtAccept[i] = 0

\* A connection was dropped for want of a permit, then a handler failed
\* on a limit violation after its scanner connection was open, and the
\* connection that arrived after it was accepted.
C12_Witness ==
    /\ srv.lastFinished = Finished("Chunk size exceeds limit")
    /\ srv.scanner = {}
    /\ \E i, j \in ConnIds :
          /\ i < j
          /\ srv.stage[i] = "dropped"
          /\ srv.stage[j] = "cmd"
          /\ \A k \in ConnIds : k < j /\ k # i => srv.stage[k] = "done"
    /\ srv.stage[MaxConnections + 1] = "dropped"
    /\ srv.stage[MaxConnections + 2] = "cmd"
    /\ srv.permits = MaxConnections - 1

\* C13: never more than max_connections connections are being handled; a
\* connection that arrived while no permit was free has no task, no result
\* and no scanner connection, and the loop went on to accept the next one.
C13_AtMostMaxConnectionsHandled ==
    srv.loop # "off" =>
        /\ Cardinality(InFlight) <= MaxConnections
        /\ Cardinality(srv.scanner) <= MaxConnections
        /\ srv.permits >= 0
        /\ \A i \in ConnIds :
              srv.stage[i] = "dropped" =>
                 /\ srv.permitsAtAccept[i] = 0
                 /\ srv.result[i] = NotFinished
                 /\ i \notin srv.scanner
        /\ srv.conn_counter = Cardinality({ i \in ConnIds :
                                  srv.stage[i] \notin {"none", "dropped"} })

\* A connection was dropped while max_connections handlers were running
\* with scanner connections open, and the loop has accepted a later one.
C13_Witness ==
    /\ srv.loop = "running"
    /\ srv.stage[MaxConnections + 1] = "dropped"
    /\ srv.stage[MaxConnections + 2] \in {"cmd", "connect", "stream"}
    /\ Cardinality(InFlight) = MaxConnections

\* ------------------------------------------------------------------------
\* The watcher (watcher.rs): two producer subtrees under one Watcher
\* ------------------------------------------------------------------------
\* Durations and instants are counted in units of MIN_POLL_INTERVAL
\* (100 ms); ctime is in whole seconds, as MetadataExt::ctime returns it.
MIN_POLL_INTERVAL == 1
Second == 10 * MIN_POLL_INTERVAL
MOVE_COOKIE_TIMEOUT == 2 * Second

\* config.debounce_duration, as the channel's debounceMs sets it.
debounce_duration == 2 * Second

\* config.max_pending, and the size of what the environment does.
MaxPending == 2
MaxInodes == 3
MaxCookies == 2
MaxTicks == 3
MaxFsOps == 3
MaxInstalls == 1
MaxOverflows == 1

TmpName == ".tmp"
WNames == {"f", "g", TmpName}
WPaths == Producers \X WNames
WSource(path) == path[1]
WName(path) == path[2]
Peer(source) == IF source = "a" THEN "b" ELSE "a"

Inodes == 1..MaxInodes
NoIno == 0
Cookies == 1..MaxCookies
NoCookie == 0
NoTime == -1

CTimeAt(t) == t \div Second

\* All the orders in which a hash map can yield the keys in S.
Orders(S) ==
    { q \in [1..Cardinality(S) -> S] :
        \A i, j \in 1..Cardinality(S) : q[i] = q[j] => i = j }

WMax(a, b) == IF a >= b THEN a ELSE b

\* ---- the watcher's tables ------------------------------------------------
NoEntry == [path |-> <<>>, deadline |-> NoTime, hits |-> 0, lastHit |-> NoTime,
            cause |-> "none", skip |-> FALSE]

NoMove == [old_path |-> <<>>, old_id |-> NoIno, expires |-> NoTime,
           cause |-> "none", ino |-> NoIno]

\* A FileEvent, with what the model remembers about its origin: the inode
\* of the pending entry it came from, the kernel event or timer that
\* caused it, the move cookie it settles, whether the capacity ceiling
\* forced it, and the deadline its entry had.
FileEvent(kind, path, old_path, ino, cause, cookie, forced, deadline, hits, skip) ==
    [kind |-> kind, path |-> path, old_path |-> old_path, ino |-> ino,
     cause |-> cause, cookie |-> cookie, forced |-> forced,
     deadline |-> deadline, hits |-> hits, skip |-> skip]

NoEvent ==
    FileEvent("none", <<>>, <<>>, NoIno, "none", NoCookie, FALSE, NoTime, 0, FALSE)

\* A kernel event as inotify reports it, with what the model remembers
\* about it: `cause` is "vm" for a producer's operation and "own" for an
\* operation of the handler, `ino` the inode the operation acted on.
KernelEvent(mask, path, cookie, cause, ino) ==
    [mask |-> mask, path |-> path, cookie |-> cookie, cause |-> cause,
     ino |-> ino]

Overflow == KernelEvent("Q_OVERFLOW", <<>>, NoCookie, "kernel", NoIno)

PendingIds(s) == { i \in Inodes : s.pending[i] # NoEntry }

MoveCookies(s) == { c \in Cookies : s.pending_moves[c] # NoMove }

\* The skip cache holds this inode with the ctime the inode has now.
SkipMatches(s, i) == i # NoIno /\ s.skip_cache[i] # NoTime /\ s.skip_cache[i] = s.ctime[i]

PushReady(s, ev) ==
    [s EXCEPT !.ready = Append(@, ev),
              !.last.pushed = Append(@, [kind |-> ev.kind, path |-> ev.path])]

ModifiedOf(s, i, forced) ==
    FileEvent("Modified", s.pending[i].path, <<>>, i, s.pending[i].cause,
              NoCookie, forced, s.pending[i].deadline, s.pending[i].hits,
              s.pending[i].skip /\ SkipMatches(s, i))

\* pending.remove(id) followed by pending_by_path.remove(&entry.path) and
\* the push of a Modified event (flush_expired, force_process_oldest).
EmitPending(s, i, forced) ==
    LET ev == ModifiedOf(s, i, forced)
        s1 == [s EXCEPT !.pending[i] = NoEntry,
                        !.pending_by_path[s.pending[i].path] = NoIno]
    IN  PushReady(s1, ev)

RECURSIVE EmitAll(_, _, _)
EmitAll(s, order, k) ==
    IF k > Len(order) THEN s
    ELSE EmitAll(EmitPending(s, order[k], FALSE), order, k + 1)

Expired(s) == { i \in PendingIds(s) : s.pending[i].deadline <= s.now }

\* flush_expired, the map yielding the expired entries in `order`.
FlushExpired(s, order) == EmitAll(s, order, 1)

ExpiredMoves(s) == { c \in MoveCookies(s) : s.pending_moves[c].expires <= s.now }

RECURSIVE ExpireAll(_, _, _)
ExpireAll(s, order, k) ==
    IF k > Len(order) THEN s
    ELSE LET c == order[k]
             pm == s.pending_moves[c]
             s1 == [s EXCEPT !.pending_moves[c] = NoMove]
         IN  ExpireAll(PushReady(s1, FileEvent("Deleted", pm.old_path, <<>>,
                                               pm.ino, pm.cause, c, FALSE,
                                               NoTime, 0, FALSE)),
                       order, k + 1)

\* flush_expired_moves, the map yielding the expired cookies in `order`.
FlushExpiredMoves(s, order) == ExpireAll(s, order, 1)

\* Faulty variant: no timeout, whatever is pending.
NextTimeoutNone(s) == NoTime

\* next_timeout: the nearest deadline from now, floored by the poll floor;
\* NoTime when nothing is pending.
NextTimeout(s) ==
    IF PendingIds(s) = {} THEN NoTime
    ELSE LET d == CHOOSE d \in { s.pending[i].deadline : i \in PendingIds(s) } :
                     \A i \in PendingIds(s) : d <= s.pending[i].deadline
         IN  WMax(WMax(d - s.now, 0), MIN_POLL_INTERVAL)

\* The entries force_process_oldest may pick: those with the least
\* deadline (min_by_key over a hash map).
Oldest(s) ==
    { i \in PendingIds(s) :
        \A j \in PendingIds(s) : s.pending[i].deadline <= s.pending[j].deadline }

ForceProcessOldest(s, tie) ==
    IF Oldest(s) = {} THEN s
    ELSE EmitPending(s, IF tie \in Oldest(s) THEN tie ELSE CHOOSE i \in Oldest(s) : TRUE,
                     TRUE)

\* Faulty variant: the ceiling is tested after the insert has been counted.
AtCapacityLate(s) == Cardinality(PendingIds(s)) > MaxPending

AtCapacity(s) == Cardinality(PendingIds(s)) >= MaxPending

\* handle_modify.
HandleModify(s, file_id, path, cause, tie) ==
    LET existing == s.pending[file_id] IN
    IF existing # NoEntry
    THEN LET s1 == IF existing.path # path
                   THEN [s EXCEPT !.pending_by_path[existing.path] = NoIno,
                                  !.pending_by_path[path] = file_id]
                   ELSE s
         IN  [s1 EXCEPT !.pending[file_id] =
                  [existing EXCEPT !.deadline = s.now + debounce_duration,
                                   !.path = path,
                                   !.hits = 2,
                                   !.lastHit = s.now,
                                   !.cause = cause,
                                   !.skip = SkipMatches(s, file_id)],
                  !.unlinked = @ \ {file_id}]
    ELSE LET old_id == s.pending_by_path[path]
             s1 == IF old_id # NoIno
                   THEN [s EXCEPT !.pending_by_path[path] = NoIno,
                                  !.pending[old_id] = NoEntry]
                   ELSE s
             s2 == IF AtCapacity(s1) THEN ForceProcessOldest(s1, tie) ELSE s1
         IN  [s2 EXCEPT !.pending_by_path[path] = file_id,
                        !.pending[file_id] =
                            [path |-> path,
                             deadline |-> s.now + debounce_duration,
                             hits |-> 1, lastHit |-> s.now, cause |-> cause,
                             skip |-> SkipMatches(s, file_id)],
                        !.unlinked = @ \ {file_id}]

\* ---- overflow ------------------------------------------------------------
OVERFLOW_BACKOFF_BASE == 2 * Second
OVERFLOW_BACKOFF_MAX == 60 * Second
OVERFLOW_RESET_AFTER == 300 * Second

\* A symbolic link that the sync pass left in a producer's subtree; no
\* producer touches it.
SymLinks == { <<"b", "l">> }

\* read_dir of the roots: the files and the symbolic link.
DirEntries(s) == { p \in WPaths : s.fs[p] # NoIno } \cup SymLinks

\* The regular files under the roots, which rescan_roots visits root by
\* root (read_dir yields the entries of a directory in any order):
\* symlink_metadata says is_file() of them, not of a symbolic link.
RegularFiles(s) == { p \in DirEntries(s) : p \notin SymLinks }

RescanOrders(s) ==
    { q \in Orders(RegularFiles(s)) :
        \A i, j \in 1..Len(q) :
            (WSource(q[i]) = ProducerOrder[1] /\ WSource(q[j]) # ProducerOrder[1])
                => i < j }

\* try_queue_file for each file of the rescan.
RECURSIVE QueueFiles(_, _, _, _)
QueueFiles(s, order, k, tie) ==
    IF k > Len(order) THEN s
    ELSE QueueFiles(HandleModify(s, s.fs[order[k]], order[k], "rescan", tie),
                    order, k + 1, tie)

\* Faulty variant: the pending moves and the ready queue survive.
ClearStateKeepsQueued(s) ==
    [s EXCEPT !.pending = [i \in Inodes |-> NoEntry],
              !.pending_by_path = [p \in WPaths |-> NoIno]]

\* "Clear state" of handle_overflow.
ClearState(s) ==
    [s EXCEPT !.pending = [i \in Inodes |-> NoEntry],
              !.pending_by_path = [p \in WPaths |-> NoIno],
              !.pending_moves = [c \in Cookies |-> NoMove],
              !.ready = <<>>]

HandleOverflow(s, rorder, tie) ==
    LET count == IF s.last_overflow # NoTime
                    /\ s.now - s.last_overflow >= OVERFLOW_RESET_AFTER
                 THEN 0 ELSE s.overflow_count
        backoff == Min(OVERFLOW_BACKOFF_BASE * (2 ^ count), OVERFLOW_BACKOFF_MAX)
        s1 == [s EXCEPT !.now = @ + backoff,
                        !.overflow_count = count + 1,
                        !.last_overflow = s.now + backoff]
    IN  QueueFiles(ClearState(s1), rorder, 1, tie)

\* ---- handle_inotify_event ------------------------------------------------
MoveAt(s, cookie) == IF cookie \in Cookies THEN s.pending_moves[cookie] ELSE NoMove

RemoveMove(s, cookie) ==
    IF cookie \in Cookies THEN [s EXCEPT !.pending_moves[cookie] = NoMove] ELSE s

DeletedEvent(path, cause, cookie, ino) ==
    FileEvent("Deleted", path, <<>>, ino, cause, cookie, FALSE, NoTime, 0, FALSE)

RenamedEvent(path, old_path, ino, cause, cookie) ==
    FileEvent("Renamed", path, old_path, ino, cause, cookie, FALSE, NoTime, 0, FALSE)

OnDelete(s, ev) ==
    LET file_id == s.pending_by_path[ev.path]
        s1 == IF file_id # NoIno
              THEN [s EXCEPT !.pending_by_path[ev.path] = NoIno,
                             !.pending[file_id] = NoEntry]
              ELSE s
        \* remembered: the file the kernel reports deleted was pending (and
        \* its inode number has not been given to another file since)
        s2 == IF s.pending[ev.ino] # NoEntry /\ \A p \in WPaths : s.fs[p] # ev.ino
              THEN [s1 EXCEPT !.unlinked = @ \cup {ev.ino}] ELSE s1
    IN  PushReady(s2, DeletedEvent(ev.path, ev.cause, NoCookie, ev.ino))

OnMovedFrom(s, ev) ==
    [s EXCEPT !.pending_by_path[ev.path] = NoIno,
              !.pending_moves[ev.cookie] =
                  [old_path |-> ev.path, old_id |-> s.fs[ev.path],
                   expires |-> s.now + MOVE_COOKIE_TIMEOUT,
                   cause |-> ev.cause, ino |-> ev.ino],
              !.recorded = @ \cup {ev.cookie}]

\* skip_cache.get(&file_id) yields the ctime the file has now.
IsOwnWrite(s, file_id) ==
    s.skip_cache[file_id] # NoTime /\ s.skip_cache[file_id] = s.ctime[file_id]

\* The source holds both sides of an unresolved merge in the branch of
\* handle_inotify_event for a rename of a file that is not pending; which
\* side the running build has is fixed the first time the branch is taken.
Builds == {"HEAD", "3c87837"}
Unbuilt == "either"

\* MOVED_TO and CLOSE_WRITE.
OnContent(s, ev, tie, build) ==
    LET file_id == s.fs[ev.path]
        is_moved_to == ev.mask = "MOVED_TO"
        pm == MoveAt(s, ev.cookie)
    IN  IF file_id = NoIno THEN s
        ELSE IF IsOwnWrite(s, file_id)
        THEN (IF is_moved_to THEN RemoveMove(s, ev.cookie) ELSE s)
        ELSE IF is_moved_to /\ pm # NoMove
        THEN LET s1 == RemoveMove(s, ev.cookie) IN
             IF pm.old_id = file_id
             THEN IF s1.pending[file_id] # NoEntry
                  THEN LET s2 == [s1 EXCEPT
                                    !.pending_by_path[s1.pending[file_id].path] = NoIno,
                                    !.pending[file_id] = NoEntry]
                       IN  HandleModify(
                               PushReady(s2, DeletedEvent(pm.old_path, pm.cause, ev.cookie, pm.ino)),
                               file_id, ev.path, ev.cause, tie)
                  ELSE LET old == s1.pending_by_path[ev.path]
                           b == IF s.build = Unbuilt THEN build ELSE s.build
                           s2 == IF b = "3c87837" /\ old # NoIno
                                 THEN [s1 EXCEPT !.pending_by_path[ev.path] = NoIno,
                                                 !.pending[old] = NoEntry,
                                                 !.build = b]
                                 ELSE [s1 EXCEPT !.build = b]
                       IN  PushReady(s2, RenamedEvent(ev.path, pm.old_path, file_id,
                                                      ev.cause, ev.cookie))
             ELSE HandleModify(
                      PushReady(s1, DeletedEvent(pm.old_path, pm.cause, ev.cookie, pm.ino)),
                      file_id, ev.path, ev.cause, tie)
        ELSE HandleModify(s, file_id, ev.path, ev.cause, tie)

HandleInotifyEvent(s, ev, tie, rorder, build) ==
    CASE ev.mask = "Q_OVERFLOW" -> HandleOverflow(s, rorder, tie)
      [] ev.mask = "DELETE" -> OnDelete(s, ev)
      [] ev.mask = "MOVED_FROM" -> OnMovedFrom(s, ev)
      [] ev.mask \in {"MOVED_TO", "CLOSE_WRITE"} -> OnContent(s, ev, tie, build)
      [] OTHER -> s

\* ---- Watcher::next -------------------------------------------------------
NoLast == [mask |-> "none", path |-> <<>>, cause |-> "none", pushed |-> <<>>,
           id |-> NoIno, skipped |-> FALSE, at |-> NoTime, rename |-> FALSE,
           over |-> NoIno, old_path |-> <<>>]

\* next() returns the head of the ready queue to run(), which calls the
\* handler.
Deliver(s) ==
    LET ev == Head(s.ready) IN
    [s EXCEPT !.ready = Tail(@), !.cur = ev, !.pc = "handler",
              !.wake = NoTime,
              !.settled = IF ev.cookie \in Cookies
                          THEN [@ EXCEPT ![ev.cookie] = Min(@ + 1, 2)] ELSE @]

\* One pass of the loop of next(): up to the return of an event or to the
\* await on the kernel stream.
Resume(s, order, morder) ==
    IF s.ready # <<>> THEN Deliver(s)
    ELSE LET s1 == FlushExpired(s, order) IN
         IF s1.ready # <<>> THEN Deliver(s1)
         ELSE LET s2 == FlushExpiredMoves(s1, morder)
                  timeout == NextTimeout(s2)
              IN  [s2 EXCEPT !.pc = "wait",
                             !.wake = IF timeout = NoTime THEN NoTime
                                      ELSE s2.now + timeout]

\* ---- the watcher's state -------------------------------------------------
\* The tree a watcher is started on: the sync pass has left one file with
\* its copy in the peer's subtree.
WSeeds ==
    { [p \in WPaths |-> IF p = <<"a", "f">> THEN 1
                        ELSE IF p = <<"b", "f">> THEN 2 ELSE NoIno] }

\* What the environment of one run may do: producer operations, installs
\* by the handler, kernel queue overflows.
Limits(fsops, installs, overflows) ==
    [fsops |-> fsops, installs |-> installs, overflows |-> overflows]

\* Watcher::with_config and add_recursive done; run() about to call next().
WStart(limits, fs) ==
    [pc |-> "loop", build |-> Unbuilt, limits |-> limits, now |-> 0,
     fs |-> fs, ctime |-> [i \in Inodes |-> 0], kq |-> <<>>,
     pending |-> [i \in Inodes |-> NoEntry],
     pending_by_path |-> [p \in WPaths |-> NoIno],
     pending_moves |-> [c \in Cookies |-> NoMove],
     ready |-> <<>>,
     skip_cache |-> [i \in Inodes |-> NoTime],
     overflow_count |-> 0, last_overflow |-> NoTime,
     wake |-> NoTime, cur |-> NoEvent, written |-> {},
     ticks |-> 0, fsops |-> 0, installs |-> 0, overflows |-> 0,
     nextCookie |-> 0,
     last |-> NoLast, recorded |-> {}, settled |-> [c \in Cookies |-> 0],
     unlinked |-> {}, touched |-> {},
     displaced |-> [c \in Cookies |-> NoIno]]

WInitWith(limits) ==
    /\ w \in { WStart(limits, fs) : fs \in WSeeds }
    /\ px = PxIdle
    /\ srv = SrvIdle
    /\ sy = SyIdle
    /\ OthersIdle
    /\ parseIn = <<>>
    /\ parseOut = ParsePending
    /\ GateIdle

WUnchanged == UNCHANGED <<gateVars, proxyVars, timeVars, otherVars>>

\* ---- the kernel and the producers ---------------------------------------
FreeInodes(s) == { i \in Inodes : \A p \in WPaths : s.fs[p] # i }

\* The inode numbers a new file may get, up to renaming: the least free
\* one, and the least free one the watcher holds nothing about.
Least(S) == CHOOSE i \in S : \A j \in S : i <= j

Unknown(s) ==
    { i \in FreeInodes(s) : s.skip_cache[i] = NoTime /\ s.pending[i] = NoEntry }

NewInodes(s) ==
    (IF FreeInodes(s) = {} THEN {} ELSE {Least(FreeInodes(s))})
    \cup (IF Unknown(s) = {} THEN {} ELSE {Least(Unknown(s))})

\* The events reach the queue unless the queue is full, which the kernel
\* has marked with Q_OVERFLOW.
Post(s, events, seen) == IF seen THEN [s EXCEPT !.kq = @ \o events] ELSE s

MayLose(s) == Len(s.kq) > 0 /\ s.kq[Len(s.kq)] = Overflow

Seen(s) == IF MayLose(s) THEN BOOLEAN ELSE {TRUE}

VmActs(s) == s.pc \in {"wait", "handler"} /\ s.fsops < s.limits.fsops

VmPaths == { p \in WPaths : WName(p) # TmpName }

\* The paths the producers rename, move and unlink.
VmMovePaths == { p \in VmPaths : WSource(p) = "a" }

\* A producer VM writes a file and closes it, creating it if need be.
VmCloseWrite(p) ==
    /\ VmActs(w)
    /\ \E i \in (IF w.fs[p] # NoIno THEN {w.fs[p]} ELSE NewInodes(w)),
          seen \in Seen(w) :
          w' = Post([w EXCEPT !.fs[p] = i, !.ctime[i] = CTimeAt(w.now),
                              !.touched = @ \cup {i},
                              !.fsops = @ + 1],
                    (IF w.fs[p] = NoIno
                     THEN <<KernelEvent("CREATE", p, NoCookie, "vm", i)>>
                     ELSE <<>>)
                    \o <<KernelEvent("CLOSE_WRITE", p, NoCookie, "vm", i)>>,
                    seen)
    /\ WUnchanged

VmUnlink(p) ==
    /\ VmActs(w)
    /\ w.fs[p] # NoIno
    /\ \E seen \in Seen(w) :
          w' = Post([w EXCEPT !.fs[p] = NoIno, !.fsops = @ + 1,
                              !.touched = @ \cup {w.fs[p]}],
                    <<KernelEvent("DELETE", p, NoCookie, "vm", w.fs[p])>>, seen)
    /\ WUnchanged

\* rename(p, q) inside one producer's subtree.
VmRename(p, q) ==
    /\ VmActs(w)
    /\ w.fs[p] # NoIno
    /\ p # q /\ WSource(p) = WSource(q)
    /\ w.nextCookie < MaxCookies
    /\ \E seen \in Seen(w) :
          LET c == w.nextCookie + 1 IN
          w' = Post([w EXCEPT !.fs[q] = w.fs[p], !.fs[p] = NoIno,
                              !.ctime[w.fs[p]] = CTimeAt(w.now),
                              !.touched = @ \cup ({w.fs[p], w.fs[q]} \ {NoIno}),
                              \* remembered: the inode the rename replaced
                              !.displaced[c] = w.fs[q],
                              !.nextCookie = c, !.fsops = @ + 1],
                    <<KernelEvent("MOVED_FROM", p, c, "vm", w.fs[p]),
                      KernelEvent("MOVED_TO", q, c, "vm", w.fs[p])>>, seen)
    /\ WUnchanged

\* rename(p, somewhere outside the watched roots).
VmMoveOut(p) ==
    /\ VmActs(w)
    /\ w.fs[p] # NoIno
    /\ w.nextCookie < MaxCookies
    /\ \E seen \in Seen(w) :
          LET c == w.nextCookie + 1 IN
          w' = Post([w EXCEPT !.fs[p] = NoIno, !.nextCookie = c, !.fsops = @ + 1,
                              !.touched = @ \cup {w.fs[p]}],
                    <<KernelEvent("MOVED_FROM", p, c, "vm", w.fs[p])>>, seen)
    /\ WUnchanged

\* rename(somewhere outside the watched roots, q).
VmMoveIn(q) ==
    /\ VmActs(w)
    /\ \E i \in NewInodes(w), seen \in Seen(w) :
          w' = Post([w EXCEPT !.fs[q] = i, !.ctime[i] = CTimeAt(w.now),
                              !.touched = @ \cup ({i, w.fs[q]} \ {NoIno}),
                              !.fsops = @ + 1],
                    <<KernelEvent("MOVED_TO", q, NoCookie, "vm", i)>>, seen)
    /\ WUnchanged

\* The kernel's queue fills up (events of other files fill it): the
\* kernel queues Q_OVERFLOW and drops what follows until the queue is read.
KernelOverflow ==
    /\ w.pc \in {"wait", "handler"}
    /\ w.overflows < w.limits.overflows
    /\ ~MayLose(w)
    /\ w' = [w EXCEPT !.kq = Append(@, Overflow), !.overflows = @ + 1]
    /\ WUnchanged

\* Nothing the watcher holds depends on the clock.
Timeless(s) ==
    /\ PendingIds(s) = {}
    /\ MoveCookies(s) = {}
    /\ \A i \in Inodes : s.skip_cache[i] = NoTime
    /\ s.written = {}

\* Time passes while the handler runs or while next() awaits: no further
\* than the instant its sleep ends, and not at all while the kernel
\* stream has an event to yield.
TickSteps(s) ==
    { d \in {Second, 2 * Second} :
        (s.pc = "wait" /\ s.wake # NoTime) => s.now + d <= s.wake }

Tick ==
    /\ \/ w.pc = "handler"
       \/ w.pc = "wait" /\ w.kq = <<>>
    /\ ~Timeless(w)
    /\ w.ticks < MaxTicks
    /\ \E d \in TickSteps(w) : w' = [w EXCEPT !.now = @ + d, !.ticks = @ + 1]
    /\ WUnchanged

\* ---- the watcher's steps -------------------------------------------------
WNext ==
    /\ w.pc = "loop"
    /\ \E order \in Orders(Expired(w)), morder \in Orders(ExpiredMoves(w)) :
          w' = Resume([w EXCEPT !.last = NoLast], order, morder)
    /\ WUnchanged

\* stream.next() yields an event: process_stream_event.
WStreamEvent ==
    /\ w.pc = "wait"
    /\ w.kq # <<>>
    /\ LET ev == Head(w.kq)
           s1 == [w EXCEPT !.kq = Tail(@),
                           \* remembered: what process_stream_event was
                           \* given and what fs::metadata showed it
                           !.last = [mask |-> ev.mask, path |-> ev.path,
                                     cause |-> ev.cause, pushed |-> <<>>,
                                     id |-> IF ev.mask \in {"MOVED_TO", "CLOSE_WRITE"}
                                            THEN w.fs[ev.path] ELSE NoIno,
                                     skipped |-> /\ ev.mask \in {"MOVED_TO", "CLOSE_WRITE"}
                                                 /\ w.fs[ev.path] # NoIno
                                                 /\ IsOwnWrite(w, w.fs[ev.path]),
                                     at |-> w.now,
                                     \* the event is the move-to of a rename
                                     \* whose move-from is recorded, of a
                                     \* file that is at the new path and
                                     \* was not pending
                                     rename |-> /\ ev.mask = "MOVED_TO"
                                                /\ MoveAt(w, ev.cookie) # NoMove
                                                /\ MoveAt(w, ev.cookie).ino = ev.ino
                                                /\ w.fs[ev.path] = ev.ino
                                                /\ w.pending[ev.ino] = NoEntry
                                                /\ ~IsOwnWrite(w, ev.ino),
                                     \* the inode that a rename onto the
                                     \* path replaced, when the move-from
                                     \* is recorded and the renamed file
                                     \* is at the path
                                     over |-> IF /\ ev.mask = "MOVED_TO"
                                                 /\ ev.cause = "vm"
                                                 /\ MoveAt(w, ev.cookie) # NoMove
                                                 /\ w.fs[ev.path] = ev.ino
                                                 /\ ~IsOwnWrite(w, ev.ino)
                                              THEN w.displaced[ev.cookie]
                                              ELSE NoIno,
                                     old_path |-> IF ev.mask = "MOVED_TO"
                                                  THEN MoveAt(w, ev.cookie).old_path
                                                  ELSE <<>>]]
       IN  \E tie \in Inodes, build \in Builds,
              rorder \in (IF ev.mask = "Q_OVERFLOW" THEN RescanOrders(w) ELSE {<<>>}) :
              w' = [HandleInotifyEvent(s1, ev, tie, rorder, build) EXCEPT !.pc = "loop"]
    /\ WUnchanged

\* The sleep of the select ends first.
WTimeout ==
    /\ w.pc = "wait"
    /\ w.wake # NoTime
    /\ w.now >= w.wake
    /\ w.kq = <<>>
    /\ w' = [w EXCEPT !.pc = "loop"]
    /\ WUnchanged

\* Faulty variant: run() drops the pairs the handler returned.
MarkWrittenForgets(s, written) == s

\* mark_written for the pairs the handler returned.
MarkWritten(s, written) ==
    [s EXCEPT !.skip_cache = [i \in Inodes |->
                                IF \E pr \in written : pr[1] = i
                                THEN (CHOOSE pr \in written : pr[1] = i)[2]
                                ELSE @[i]]]

\* The inodes of earlier installs that the watcher is still dealing with:
\* in a queued kernel event, a pending move, a pending entry or an event
\* not yet handled.
InFlightOwn(s) ==
    { s.kq[k].ino : k \in { n \in 1..Len(s.kq) : s.kq[n].cause = "own" } }
    \cup { s.pending_moves[c].ino :
              c \in { x \in MoveCookies(s) : s.pending_moves[x].cause = "own" } }
    \cup { i \in PendingIds(s) : s.pending[i].cause = "own" }
    \cup { s.ready[k].ino : k \in { n \in 1..Len(s.ready) : s.ready[n].cause = "own" } }
    \cup (IF s.cur.cause = "own" THEN {s.cur.ino} ELSE {})

\* atomic_reflink into the peer's subtree as the kernel reports it: the
\* temporary file is created, renamed onto the target, and closed; then
\* fs::metadata(&target) for the pair to return.
Install(s, target, j, c) ==
    LET tmp == <<WSource(target), TmpName>> IN
    [s EXCEPT !.fs[target] = j, !.ctime[j] = CTimeAt(s.now),
              \* a fresh copy is untouched; an inode number taken over from
              \* an earlier copy still in flight keeps that copy's mark
              !.touched = IF j \in InFlightOwn(s) THEN @ ELSE @ \ {j},
              !.nextCookie = c, !.installs = @ + 1,
              !.written = @ \cup {<<j, CTimeAt(s.now)>>},
              !.kq = @ \o <<KernelEvent("CREATE", tmp, NoCookie, "own", j),
                             KernelEvent("MOVED_FROM", tmp, c, "own", j),
                             KernelEvent("MOVED_TO", target, c, "own", j),
                             KernelEvent("CLOSE_WRITE", target, NoCookie, "own", j)>>]

\* The handler, called with a Modified or Renamed event, installs a copy
\* of the file in the peer's subtree.
WInstall ==
    /\ w.pc = "handler"
    /\ w.cur.kind \in {"Modified", "Renamed"}
    /\ w.written = {}
    /\ w.fs[w.cur.path] # NoIno
    /\ WName(w.cur.path) # TmpName
    /\ w.installs < w.limits.installs
    /\ w.nextCookie < MaxCookies
    /\ ~MayLose(w)
    /\ \E j \in NewInodes(w) :
          w' = Install(w, <<Peer(WSource(w.cur.path)), WName(w.cur.path)>>, j,
                       w.nextCookie + 1)
    /\ WUnchanged

\* The handler returns to run(), which marks what the handler wrote.
WReturn ==
    /\ w.pc = "handler"
    /\ w' = [MarkWritten(w, w.written) EXCEPT !.pc = "loop", !.cur = NoEvent,
                                              !.written = {}]
    /\ WUnchanged

WatcherNext ==
    \/ \E p \in VmPaths : VmCloseWrite(p)
    \/ \E p \in VmMovePaths : VmUnlink(p)
    \/ \E p, q \in VmMovePaths : VmRename(p, q)
    \/ \E p \in VmMovePaths : VmMoveOut(p)
    \/ \E q \in VmMovePaths : VmMoveIn(q)
    \/ Tick
    \/ WNext
    \/ WStreamEvent
    \/ WTimeout
    \/ WReturn

\* Producers only: no installs by the handler, no queue overflow.
SpecWatcher == WInitWith(Limits(MaxFsOps, 0, 0)) /\ [][WatcherNext]_vars

WatcherOwnNext ==
    \/ WatcherNext
    \/ WInstall
    \/ KernelOverflow

\* The handler installs copies and the kernel queue may overflow, with
\* fewer producer operations.
SpecWatcherOwn ==
    WInitWith(Limits(MaxFsOps - 1, MaxInstalls, MaxOverflows))
        /\ [][WatcherOwnNext]_vars

\* ------------------------------------------------------------------------
\* Properties of the watcher
\* ------------------------------------------------------------------------
\* The events in the ready queue and the one the handler holds.
Emitted == { w.ready[k] : k \in 1..Len(w.ready) } \cup {w.cur}

\* C14: no Modified event is emitted for an inode that the skip cache
\* held with the inode's ctime both when the file entered the pending
\* table and when the event is emitted, whichever way the file entered.
C14_SkipCachedInodeGetsNoModified ==
    w.pc # "off" =>
        \A ev \in Emitted : ev.kind = "Modified" => ~ev.skip

C16_EachCookieSettledOnce ==
    w.pc # "off" =>
        \A c \in w.recorded :
            /\ w.settled[c] <= 1
            /\ (w.pending_moves[c] = NoMove
                    /\ \A ev \in Emitted : ev.cookie # c) => w.settled[c] = 1
            /\ w.pc = "wait" =>
                  /\ w.pending_moves[c] # NoMove =>
                        w.now <= w.pending_moves[c].expires + MIN_POLL_INTERVAL
                  /\ \A k \in 1..Len(w.ready) : w.ready[k].cookie # c

\* C17: the pending table never holds more than max_pending entries, and
\* an entry emitted because of the ceiling had the earliest deadline.
C17_PendingNeverExceedsMax ==
    w.pc # "off" =>
        /\ Cardinality(PendingIds(w)) <= MaxPending
        /\ \A ev \in Emitted :
              ev.forced =>
                 /\ ev.kind = "Modified"
                 /\ \A i \in PendingIds(w) : ev.deadline <= w.pending[i].deadline

\* An overflow rescan found more files than max_pending: the table is
\* full and the entry with the earliest deadline is in the ready queue.
C17_Witness ==
    /\ Cardinality(PendingIds(w)) = MaxPending
    /\ \E k \in 1..Len(w.ready) : w.ready[k].forced
    /\ w.last.mask = "Q_OVERFLOW"

\* C18: every pending entry's path maps to its inode in the path index,
\* and every entry of the path index points to a pending entry with that
\* path.
C18_PendingAndPathIndexConsistent ==
    w.pc # "off" =>
        /\ \A i \in PendingIds(w) : w.pending_by_path[w.pending[i].path] = i
        /\ \A p \in WPaths :
              w.pending_by_path[p] # NoIno =>
                 /\ w.pending[w.pending_by_path[p]] # NoEntry
                 /\ w.pending[w.pending_by_path[p]].path = p

\* C19: a close-after-write event leaves one pending entry for its inode,
\* carrying the event's path and the deadline now + debounce, whether or
\* not the inode was pending already; each pending entry's deadline is the
\* instant of the last event for its inode plus the debounce duration; a
\* Modified event that the ceiling did not force is emitted no earlier
\* than that deadline; and
\* while next() awaits with entries pending, its sleep ends no later than
\* the nearest deadline (or the poll floor), whether or not another
\* kernel event arrives.
C19_DebouncedModified ==
    w.pc # "off" =>
        /\ (w.last.mask = "CLOSE_WRITE" /\ w.last.id # NoIno /\ ~w.last.skipped) =>
              /\ w.pending[w.last.id].path = w.last.path
              /\ w.pending[w.last.id].deadline = w.last.at + debounce_duration
        /\ \A i \in PendingIds(w) :
              /\ w.pending[i].deadline = w.pending[i].lastHit + debounce_duration
              /\ w.pending[i].lastHit <= w.now
        /\ \A ev \in Emitted :
              (ev.kind = "Modified" /\ ~ev.forced) => ev.deadline <= w.now
        /\ (w.pc = "wait" /\ PendingIds(w) # {}) =>
              /\ w.wake # NoTime
              /\ w.now <= w.wake
              /\ \A i \in PendingIds(w) :
                    w.wake <= WMax(w.pending[i].deadline, w.now + MIN_POLL_INTERVAL)

\* Two close-after-write events one second apart were coalesced and the
\* handler holds the one Modified event, emitted when the debounce
\* duration had elapsed since the second of them.
C19_Witness ==
    /\ w.pc = "handler"
    /\ w.cur.kind = "Modified"
    /\ w.cur.hits = 2
    /\ ~w.cur.forced
    /\ w.cur.deadline = Second + debounce_duration
    /\ w.now = w.cur.deadline
    /\ w.ready = <<>>
    /\ PendingIds(w) = {}

\* C20: when the kernel reports the deletion of a file that was pending,
\* exactly one Deleted event is emitted for the path, the file's pending
\* entry is gone and no Modified event for the file is emitted.
C20_DeletedWhilePendingGetsNoModified ==
    w.pc # "off" =>
        /\ w.last.mask = "DELETE" =>
              w.last.pushed = <<[kind |-> "Deleted", path |-> w.last.path]>>
        /\ \A i \in w.unlinked :
              /\ w.pending[i] = NoEntry
              /\ \A ev \in Emitted : ev.kind = "Modified" => ev.ino # i

\* C21: the move-to of a rename inside a watched tree, of a file that is
\* not pending, makes the watcher push exactly one Renamed(new, old) event
\* and leaves no pending entry for the file (so no Modified follows).
C21_RenameOfScannedFileGivesRenamed ==
    (w.pc # "off" /\ w.last.rename) =>
        /\ Len(w.last.pushed) = 1
        /\ w.last.pushed[1] = [kind |-> "Renamed", path |-> w.last.path]
        /\ w.pending[w.last.id] = NoEntry

\* C22: the move-to of a rename onto a path that held another inode
\* makes the watcher push exactly one Deleted event (for the old path of
\* the rename), leaves the renamed inode pending at the path with the
\* deadline now + debounce, and leaves no pending entry of the replaced
\* inode at that path.
C22_ReplaceGivesDeletedThenOneModified ==
    (w.pc # "off" /\ w.last.over # NoIno /\ w.last.over # w.last.id) =>
        /\ w.last.pushed = <<[kind |-> "Deleted", path |-> w.last.old_path]>>
        /\ w.pending[w.last.id].path = w.last.path
        /\ w.pending[w.last.id].deadline = w.last.at + debounce_duration
        /\ ~(/\ w.pending[w.last.over] # NoEntry
              /\ w.pending[w.last.over].path = w.last.path)

\* The paths that have a pending entry or a Modified event in the ready
\* queue.
QueuedPaths ==
    { w.pending[i].path : i \in PendingIds(w) }
    \cup { w.ready[k].path : k \in { n \in 1..Len(w.ready) : w.ready[n].kind = "Modified" } }

FirstPassClean ==
    /\ sy.pass = 2
    /\ syncActions = sy.second
    /\ \/ \A a \in sy.first : a.type = "DeleteStale"
       \/ /\ \A a \in sy.first : a.type = "TriggerSync"
          /\ h.pc = "done" /\ ~h.ioFailed /\ h.verdict = "Clean"

\* C24: a second sync pass, run on the same tree right after a first pass
\* that completed without a failure, computes no action: it invokes no
\* handler and deletes nothing.
C24_SecondPassDoesNothing == FirstPassClean => sy.second = {}

\* The actions the latest inventory computed, and the states in which none
\* of them has been executed: the trees are as the inventory read them.
Planned == IF sy.pass = 1 THEN sy.first ELSE sy.second

JustPlanned == sy.pass > 0 /\ syncActions = Planned

Holders(rel) == { p \in Producers : share[p][rel] # Absent }

\* (mtime, size) of <tree>/<rel> as stat reports them.
StatOf(tree, rel) ==
    <<sy.mtime[tree][rel],
      FileLen(IF tree = "export" THEN export[rel] ELSE share[tree][rel])>>

Latest(rel) ==
    { p \in Holders(rel) :
        \A q \in Holders(rel) : sy.mtime[q][rel] <= sy.mtime[p][rel] }

ProducersDisagree(rel) ==
    \E p, q \in Holders(rel) : StatOf(p, rel) # StatOf(q, rel)

ExportOutOfDate(rel) ==
    /\ cfg.consumers
    /\ \/ export[rel] = Absent
       \/ \E p \in Latest(rel) : StatOf("export", rel) # StatOf(p, rel)

TriggersFor(rel) ==
    { a \in syncActions : a.type = "TriggerSync" /\ a.rel = rel }

\* C25: for a relative path that some producer holds, the inventory emits
\* one TriggerSync, with a holder of the latest mtime as source, exactly
\* when the holders disagree on (mtime, size), or fewer producers hold the
\* path than are configured, or consumers exist and export lacks the path
\* or differs from the latest entry in (mtime, size); otherwise, and for
\* paths no producer holds, it emits none.
C25_TriggerExactlyWhenOutOfSync ==
    JustPlanned =>
        \A rel \in Rel :
            IF /\ Holders(rel) # {}
               /\ \/ ProducersDisagree(rel)
                  \/ Cardinality(Holders(rel)) < Len(ProducerOrder)
                  \/ ExportOutOfDate(rel)
            THEN /\ Cardinality(TriggersFor(rel)) = 1
                 /\ \A a \in TriggersFor(rel) : a.source \in Latest(rel)
            ELSE TriggersFor(rel) = {}

\* Both producers hold f with equal (mtime, size), export holds it with the
\* same size and another mtime: one TriggerSync; and, in another state,
\* nothing is out of date and nothing is emitted.
C25_Witness ==
    /\ JustPlanned
    /\ cfg.consumers
    /\ Holders(<<NameF>>) = Producers
    /\ ~ProducersDisagree(<<NameF>>)
    /\ export[<<NameF>>] # Absent
    /\ FileLen(export[<<NameF>>]) = FileLen(share["a"][<<NameF>>])
    /\ sy.mtime["export"][<<NameF>>] < sy.mtime["a"][<<NameF>>]
    /\ Cardinality(TriggersFor(<<NameF>>)) = 1

StaleFor(rel) == [type |-> "DeleteStale", source |-> "export", rel |-> rel]

RawEvent == h.evBase # NoVal

\* The name has a run ".." between separators (or the ends of the name).
HasParentRun(s) ==
    \E i \in 1..(Len(s) - 1) :
        /\ s[i] = "." /\ s[i + 1] = "."
        /\ i = 1 \/ s[i - 1] = "/"
        /\ i + 1 = Len(s) \/ s[i + 2] = "/"

Traversal(s) == HasRoot(s) \/ HasParentRun(s)

\* The call did nothing: it returned without staging, scanning, installing,
\* deleting or notifying, and every tree is as the event found it.
Untouched ==
    /\ h.pc = "done"
    /\ log = {}
    /\ h.staged = NoVal /\ h.scanned = NoVal /\ ~h.notified
    /\ share = [p \in Producers |-> GuardFiles(p)]
    /\ export = GuardFiles("export")
    /\ quarantine = [r \in GuardRel |-> Absent]

\* C27: the handler does nothing for an event whose path is outside the
\* source's share root, or whose path below that root is absolute or has a
\* ".." component (for a rename: the new or the old path); and
\* is_safe_relative_path is false exactly for the paths with a leading "/"
\* or a ".." component.
C27_TraversalEventsAreDropped ==
    RawEvent =>
        /\ (\/ h.evBase # SharePath(h.source)
            \/ Traversal(h.ev)
            \/ h.kind = "Renamed" /\ Traversal(h.evOld)) => Untouched
        /\ IsSafeRelativePath(Components(h.ev)) <=> ~Traversal(h.ev)
        /\ IsSafeRelativePath(Components(h.evOld)) <=> ~Traversal(h.evOld)

\* Deleted(share/a/f/..) from a, in a channel without patterns: dropped.
C27_Witness ==
    /\ RawEvent
    /\ h.kind = "Deleted"
    /\ h.source = "a" /\ h.evBase = SharePath("a")
    /\ h.ev = <<"f", "/", ".", ".">>
    /\ cfg.ignoreFile = {} /\ cfg.ignorePath = {}
    /\ h.dropped
    /\ Untouched

\* pat occurs in s as a contiguous run.
Occurs(pat, s) ==
    \E i \in 1..(Len(s) - Len(pat) + 1) :
        \A k \in 1..Len(pat) : s[i + k - 1] = pat[k]

\* The part of the name after its last separator.
LastRun(s) == SplitSlash(s)[Len(SplitSlash(s))]

PatternHit ==
    \/ \E pat \in cfg.ignoreFile : Occurs(pat, LastRun(h.ev))
    \/ \E pat \in cfg.ignorePath : Occurs(pat, h.ev)

PassesPathChecks ==
    /\ h.evBase = SharePath(h.source)
    /\ ~Traversal(h.ev)
    /\ h.kind = "Renamed" => ~Traversal(h.evOld)

\* C28: the handler does nothing for a Modified, Deleted or Renamed event
\* whose file name contains an ignoreFilePatterns entry or whose relative
\* path contains an ignorePathPatterns entry; an event that passes the
\* path checks and matches no pattern is not dropped at entry.
C28_PatternEventsAreDropped ==
    RawEvent =>
        /\ (PassesPathChecks /\ PatternHit) => (h.dropped /\ Untouched)
        /\ (PassesPathChecks /\ ~PatternHit) => ~h.dropped

\* Modified(share/a/.f/f), a file that exists, in a channel whose path
\* patterns are {"f/"} and whose file patterns are the same: the file name
\* f does not contain "f/", the relative path does, and the event is dropped.
C28_Witness ==
    /\ RawEvent
    /\ h.kind = "Modified"
    /\ h.source = "a" /\ h.evBase = SharePath("a")
    /\ h.ev = <<".", "f", "/", "f">>
    /\ cfg.ignoreFile = {<<"f", "/">>}
    /\ cfg.ignorePath = {<<"f", "/">>}
    /\ share["a"][Components(h.ev)] # Absent
    /\ h.dropped
    /\ Untouched

Without(files, rel) == [files EXCEPT ![rel] = Absent]

DeletePeers == { p \in Producers : p # h.source /\ p \notin cfg.diode }

PermBits == {0, 420, 493, 1023, 1512, 2541, 4095}

SourceModes == { 32768 + b : b \in PermBits }

Uids == {0, 1000}

\* src_meta: None (quarantine), or the source's metadata.
NoMeta == [mode |-> 0, uid |-> 0, gid |-> 0, some |-> FALSE]

SourceMetas ==
    [mode : SourceModes, uid : Uids, gid : Uids, some : {TRUE}] \cup {NoMeta}

\* Faulty variant: the mode is taken over with its special bits.
InstallModeUnmasked(meta) == IF meta.some THEN meta.mode % 4096 ELSE 0

\* (mode, uid, gid) = src_meta.map_or((0o000, 0, 0),
\*                                    |m| (m.mode() & 0o0777, m.uid(), m.gid()))
InstallMode(meta) == IF meta.some THEN meta.mode % 512 ELSE 0

InstallUid(meta) == IF meta.some THEN meta.uid ELSE 0

InstallGid(meta) == IF meta.some THEN meta.gid ELSE 0

ArFile(c, mode, uid, gid) ==
    [content |-> c, mode |-> mode, uid |-> uid, gid |-> gid]

\* No file at a path.
ArAbsent == ArFile(Absent, 0, 0, 0)

\* The file the call is to leave at the destination.
FinalFile(call) ==
    ArFile(call.src, IF call.meta.some THEN call.meta.mode % 512 ELSE 0,
           InstallUid(call.meta), InstallGid(call.meta))

\* Files found at the destination before the call.
OldFiles == { ArAbsent, ArFile("good", 420, 1000, 1000), ArFile("evil", 2541, 0, 0) }

\* Faulty variant: the rename comes right after the clone.
ArOrderRenameFirst == <<"mkdir", "create", "clone", "persist", "chmod", "chown">>

\* The system calls of atomic_reflink in program order.
ArOrder == <<"mkdir", "create", "clone", "chmod", "chown", "persist">>

ArNextPc(pc) ==
    LET i == CHOOSE k \in 1..Len(ArOrder) : ArOrder[k] = pc
    IN  IF i = Len(ArOrder) THEN "done" ELSE ArOrder[i + 1]

\* atomic_reflink(src_file, src_meta, dst) is entered.
ArStart(src, meta, old) ==
    [pc |-> ArOrder[1], src |-> src, meta |-> meta, old |-> old, dst |-> old,
     tmp |-> ArAbsent, at |-> "none", result |-> "running", seen |-> {}]

\* The file the temporary handle refers to, and its update.
ArHandle(a) == IF a.at = "tmp" THEN a.tmp ELSE a.dst

ArSetHandle(a, f) ==
    IF a.at = "tmp" THEN [a EXCEPT !.tmp = f] ELSE [a EXCEPT !.dst = f]

\* An error return: the NamedTempFile is dropped, which unlinks the
\* temporary file if it still has its temporary name.
ArFail(a) == [a EXCEPT !.pc = "done", !.result = "Err", !.tmp = ArAbsent]

\* fchown clears the setuid and setgid bits of a regular file.
AfterChown(f, uid, gid) ==
    [f EXCEPT !.uid = uid, !.gid = gid,
              !.mode = @ % 1024]

\* One system call of atomic_reflink, succeeding.  NamedTempFile creates an
\* empty file of mode 0o600 owned by the daemon (root).
ArDo(a) ==
    LET n == ArNextPc(a.pc) IN
    CASE a.pc = "mkdir" -> [a EXCEPT !.pc = n]
      [] a.pc = "create" ->
            [a EXCEPT !.pc = n, !.at = "tmp",
                      !.tmp = ArFile("empty", 384, 0, 0)]
      [] a.pc = "clone" ->
            [ArSetHandle(a, [ArHandle(a) EXCEPT !.content = a.src])
                EXCEPT !.pc = n]
      [] a.pc = "chmod" ->
            [ArSetHandle(a, [ArHandle(a) EXCEPT !.mode = InstallMode(a.meta)])
                EXCEPT !.pc = n]
      [] a.pc = "chown" ->
            [ArSetHandle(a, AfterChown(ArHandle(a), InstallUid(a.meta),
                                       InstallGid(a.meta)))
                EXCEPT !.pc = n]
      [] a.pc = "persist" ->
            [a EXCEPT !.pc = n, !.dst = a.tmp, !.tmp = ArAbsent, !.at = "dst"]

ArUnchanged ==
    UNCHANGED <<gateVars, proxyVars, watcherVars, timeVars, sc, dm, su>>

ArStep ==
    /\ ar.pc \in { ArOrder[k] : k \in 1..Len(ArOrder) }
    /\ \E ok \in BOOLEAN :
          ar' = IF ok THEN LET a == ArDo(ar) IN
                           IF a.pc = "done" THEN [a EXCEPT !.result = "Ok"]
                           ELSE a
                ELSE ArFail(ar)
    /\ ArUnchanged

\* A reader of the destination path: stat and read at any moment.
ArObserve ==
    /\ ar.pc # "off"
    /\ ar.dst \notin ar.seen
    /\ ar' = [ar EXCEPT !.seen = @ \cup {ar.dst}]
    /\ ArUnchanged

InstallNext ==
    \/ ArStep
    \/ ArObserve

InstallInit ==
    /\ ar \in { ArStart(c, m, old) :
                  c \in {"good", "empty"}, m \in SourceMetas, old \in OldFiles }
    /\ GateVarsInit({CHOOSE cf \in Configs : TRUE}, "watch",
                    {[r \in Rel |-> Absent]})
    /\ parseIn = <<>>
    /\ parseOut = ParsePending
    /\ px = PxIdle
    /\ srv = SrvIdle
    /\ w = WIdle
    /\ sy = SyIdle
    /\ sc = ScIdle
    /\ dm = DmIdle
    /\ su = SuIdle

SpecInstall == InstallInit /\ [][InstallNext]_vars

\* C31: a file that has reached the destination by the rename carries the
\* source's mode & 0o777 and the source's uid and gid, or mode 000 and
\* root:root when no source metadata is given (quarantine); the metadata is
\* complete when the rename happens.
C31_InstalledFileHasMaskedMode ==
    (ar.pc # "off" /\ ar.dst # ar.old) =>
        /\ ar.dst.mode = (IF ar.meta.some THEN ar.meta.mode % 512 ELSE 0)
        /\ ar.dst.mode < 512
        /\ ar.dst.uid = (IF ar.meta.some THEN ar.meta.uid ELSE 0)
        /\ ar.dst.gid = (IF ar.meta.some THEN ar.meta.gid ELSE 0)

\* A setuid, setgid and sticky source owned by 1000:1000 was installed.
C31_Witness ==
    /\ ar.pc = "done" /\ ar.result = "Ok"
    /\ ar.meta.some /\ ar.meta.mode = 32768 + 4095
    /\ ar.meta.uid = 1000
    /\ ar.dst.mode = 511
    /\ ar.dst.uid = 1000

\* C35: whatever a reader finds at the destination path during the call is
\* the previous file (or nothing) or the complete new file with its final
\* mode and owner; a call that fails leaves the destination as it was.
C35_ReaderSeesOldOrNew ==
    ar.pc # "off" =>
        /\ ar.seen \subseteq {ar.old, FinalFile(ar)}
        /\ ar.dst \in {ar.old, FinalFile(ar)}
        /\ ar.result = "Err" => ar.dst = ar.old
        /\ ar.result = "running" => ar.dst = ar.old

\* A reader saw the old file, then the new one.
C35_Witness ==
    /\ ar.pc = "done" /\ ar.result = "Ok"
    /\ ar.old # ArAbsent
    /\ ar.seen = {ar.old, FinalFile(ar)}
    /\ FinalFile(ar) # ar.old

\* ------------------------------------------------------------------------
\* Scanner client (scanner.rs): one response, trimmed and parsed
\* ------------------------------------------------------------------------
\* A string is a sequence of characters; NUL and LF are the terminators.
MaxTokens == 5

StrOK == <<"O", "K">>

StrFOUND == <<"F", "O", "U", "N", "D">>

StrERROR == <<"E", "R", "R", "O", "R">>

StrSep == <<":", " ">>

StrSpFOUND == <<" ">> \o StrFOUND

StrUnknown == <<"u", "n", "k", "n", "o", "w", "n">>

ResponseTokens == {StrOK, StrFOUND, StrERROR, StrSep, <<" ">>, <<"x">>, <<":">>}

RECURSIVE Flatten(_)
Flatten(ts) == IF ts = <<>> THEN <<>> ELSE Head(ts) \o Flatten(Tail(ts))

\* What clamd may write back: a line, with or without its terminator.
RawResponses ==
    { Flatten(ts) \o e :
        ts \in UNION { [1..k -> ResponseTokens] : k \in 0..MaxTokens },
        e \in { <<>>, <<"LF">>, <<"NUL">> } }

EndsWith(s, t) ==
    /\ Len(s) >= Len(t)
    /\ SubSeq(s, Len(s) - Len(t) + 1, Len(s)) = t

RECURSIVE TrimStart(_, _)
TrimStart(s, cs) ==
    IF s # <<>> /\ Head(s) \in cs THEN TrimStart(Tail(s), cs) ELSE s

RECURSIVE TrimEnd(_, _)
TrimEnd(s, cs) ==
    IF s # <<>> /\ s[Len(s)] \in cs
    THEN TrimEnd(SubSeq(s, 1, Len(s) - 1), cs) ELSE s

\* String::from_utf8_lossy(&buf[..n]).trim_matches('\0').trim()
TrimResponse(raw) ==
    LET z == TrimEnd(TrimStart(raw, {"NUL"}), {"NUL"})
    IN  TrimEnd(TrimStart(z, {" ", "LF"}), {" ", "LF"})

\* Positions at which pat occurs in s.
Matches(s, pat) ==
    { i \in 1..Len(s) : i + Len(pat) - 1 <= Len(s)
                        /\ SubSeq(s, i, i + Len(pat) - 1) = pat }

\* Faulty variant: splits at the first occurrence.
SplitOnceTail(s, pat) ==
    LET m == Matches(s, pat) IN
    IF m = {} THEN [some |-> FALSE, tail |-> <<>>]
    ELSE LET i == CHOOSE k \in m : \A j \in m : k <= j
         IN  [some |-> TRUE, tail |-> SubSeq(s, i + Len(pat), Len(s))]

\* str::rsplit_once(pat): the part after the last occurrence, if any.
RSplitOnceTail(s, pat) ==
    LET m == Matches(s, pat) IN
    IF m = {} THEN [some |-> FALSE, tail |-> <<>>]
    ELSE LET i == CHOOSE k \in m : \A j \in m : k >= j
         IN  [some |-> TRUE, tail |-> SubSeq(s, i + Len(pat), Len(s))]

\* str::trim_end_matches(pat): pat removed from the end, repeatedly.
RECURSIVE TrimEndMatches(_, _)
TrimEndMatches(s, pat) ==
    IF EndsWith(s, pat) THEN TrimEndMatches(SubSeq(s, 1, Len(s) - Len(pat)), pat)
    ELSE s

Verdict(kind, sig) == [kind |-> kind, signature |-> sig]

\* ClamAVScanner::parse_response
ParseResponse(response) ==
    IF EndsWith(response, StrOK) THEN Verdict("Clean", <<>>)
    ELSE IF EndsWith(response, StrFOUND) THEN
        LET sp == RSplitOnceTail(response, StrSep) IN
        Verdict("Infected",
                IF sp.some THEN TrimEndMatches(sp.tail, StrSpFOUND)
                ELSE StrUnknown)
    ELSE IF EndsWith(response, StrERROR) THEN Verdict("Error", <<>>)
    ELSE Verdict("Error", <<>>)

ScUnchanged ==
    UNCHANGED <<gateVars, proxyVars, watcherVars, timeVars, ar, dm, su>>

\* send_fd_for_scan / send_stream_for_scan: read the response and trim it.
ScReceive ==
    /\ sc.pc = "sent"
    /\ sc' = [sc EXCEPT !.pc = "read", !.response = TrimResponse(sc.raw)]
    /\ ScUnchanged

\* scan_fd / scan_stream: the verdict is parse_response of the response.
ScParse ==
    /\ sc.pc = "read"
    /\ sc' = [sc EXCEPT !.pc = "done", !.verdict = ParseResponse(sc.response)]
    /\ ScUnchanged

ScannerNext ==
    \/ ScReceive
    \/ ScParse

ScannerInit ==
    /\ sc \in { [pc |-> "sent", raw |-> r, response |-> <<>>,
                 verdict |-> Verdict("none", <<>>)] : r \in RawResponses }
    /\ GateVarsInit({CHOOSE cf \in Configs : TRUE}, "watch",
                    {[r \in Rel |-> Absent]})
    /\ parseIn = <<>>
    /\ parseOut = ParsePending
    /\ px = PxIdle
    /\ srv = SrvIdle
    /\ w = WIdle
    /\ sy = SyIdle
    /\ ar = ArIdle
    /\ dm = DmIdle
    /\ su = SuIdle

SpecScanner == ScannerInit /\ [][ScannerNext]_vars

\* The line without its terminator and surrounding blanks.
Stripped(raw) ==
    TrimEnd(TrimStart(raw, {"NUL", "LF", " "}), {"NUL", "LF", " "})

\* sig is tail without the " FOUND" at its end.
IsWithoutFound(sig, tail) ==
    /\ ~EndsWith(sig, StrSpFOUND)
    /\ \E k \in 0..Len(tail) :
          /\ Len(tail) = Len(sig) + k * Len(StrSpFOUND)
          /\ SubSeq(tail, 1, Len(sig)) = sig
          /\ \A j \in 0..(k - 1) :
                SubSeq(tail, Len(sig) + j * Len(StrSpFOUND) + 1,
                       Len(sig) + (j + 1) * Len(StrSpFOUND)) = StrSpFOUND

\* s has a last ': ' and tail is what follows it.
IsAfterLastSep(s, tail) ==
    /\ Len(tail) + Len(StrSep) <= Len(s)
    /\ EndsWith(s, StrSep \o tail)
    /\ Matches(tail, StrSep) = {}

MaxChannels == 2

MaxWorkers == 2

\* const SHUTDOWN_TIMEOUT: Duration = Duration::from_secs(5)
SHUTDOWN_TIMEOUT == 5

Channels == 1..MaxChannels

\* Worker threads inside the synchronous code of a task.
Busy(d) == { t \in Channels : d.task[t] \in {"run", "stuck"} }

DriverPolled(d) == Cardinality(Busy(d)) < d.workers

DmUnchanged ==
    UNCHANGED <<gateVars, proxyVars, watcherVars, timeVars, ar, sc, su>>

\* A runnable task gets a worker thread.  Its select! polls runner.run()
\* and shutdown_rx.recv(); once the broadcast is sent the second may win.
TaskSchedule(t) ==
    /\ dm.task[t] = "ready"
    /\ DriverPolled(dm)
    /\ \E stop \in {FALSE, dm.sent} :
          dm' = [dm EXCEPT !.task[t] = IF stop THEN "stopped" ELSE "run"]
    /\ DmUnchanged

\* runner.run() reaches its next await: with the shutdown broadcast in the
\* receiver the select! completes, else the task waits for a kernel event.
TaskYield(t) ==
    /\ dm.task[t] = "run"
    /\ dm' = [dm EXCEPT !.task[t] = IF dm.sent THEN "stopped" ELSE "await"]
    /\ DmUnchanged

\* runner.run() returns (an error, or the watcher stream has ended).
TaskFinish(t) ==
    /\ dm.task[t] = "run"
    /\ dm' = [dm EXCEPT !.task[t] = "stopped"]
    /\ DmUnchanged

\* A system call of the synchronous code never returns (the scanner's
\* socket is read without a timeout).
TaskBlock(t) ==
    /\ dm.task[t] = "run"
    /\ dm' = [dm EXCEPT !.task[t] = "stuck"]
    /\ DmUnchanged

\* A kernel event wakes the waiting task.
TaskEvent(t) ==
    /\ dm.task[t] = "await"
    /\ ~dm.sent
    /\ dm' = [dm EXCEPT !.task[t] = "ready"]
    /\ DmUnchanged

\* The broadcast wakes the waiting task.
TaskNotified(t) ==
    /\ dm.task[t] = "await"
    /\ dm.sent
    /\ dm' = [dm EXCEPT !.task[t] = "ready"]
    /\ DmUnchanged

\* wait_for_shutdown().await returns: SIGINT or SIGTERM.
DmSignal ==
    /\ dm.pc = "wait"
    /\ dm' = [dm EXCEPT !.pc = "broadcast"]
    /\ DmUnchanged

\* shutdown_tx.send(()), then join_all(handles) and sleep(SHUTDOWN_TIMEOUT)
\* are armed.
DmBroadcast ==
    /\ dm.pc = "broadcast"
    /\ dm' = [dm EXCEPT !.pc = "join", !.sent = TRUE, !.grace = 0]
    /\ DmUnchanged

\* A second passes.
GraceTick ==
    /\ dm.pc = "join"
    /\ dm.grace < SHUTDOWN_TIMEOUT
    /\ dm' = [dm EXCEPT !.grace = @ + 1]
    /\ DmUnchanged

\* select!: join_all(handles) is ready.
DmJoined ==
    /\ dm.pc = "join"
    /\ \A t \in Channels : dm.task[t] = "stopped"
    /\ dm' = [dm EXCEPT !.pc = "returned", !.how = "joined"]
    /\ DmUnchanged

\* select!: sleep(SHUTDOWN_TIMEOUT) is ready.
DmTimeout ==
    /\ dm.pc = "join"
    /\ dm.grace = SHUTDOWN_TIMEOUT
    /\ DriverPolled(dm)
    /\ dm' = [dm EXCEPT !.pc = "returned", !.how = "timeout"]
    /\ DmUnchanged

ShutdownNext ==
    \/ \E t \in Channels : TaskSchedule(t)
    \/ \E t \in Channels : TaskYield(t)
    \/ \E t \in Channels : TaskFinish(t)
    \/ \E t \in Channels : TaskBlock(t)
    \/ \E t \in Channels : TaskEvent(t)
    \/ \E t \in Channels : TaskNotified(t)
    \/ DmSignal
    \/ DmBroadcast
    \/ GraceTick
    \/ DmJoined
    \/ DmTimeout

ShutdownInit ==
    /\ dm \in { [pc |-> "wait", workers |-> n, task |-> [t \in Channels |-> "ready"],
                 sent |-> FALSE, grace |-> 0, how |-> "none"] :
                n \in 1..MaxWorkers }
    /\ GateVarsInit({CHOOSE cf \in Configs : TRUE}, "watch",
                    {[r \in Rel |-> Absent]})
    /\ parseIn = <<>>
    /\ parseOut = ParsePending
    /\ px = PxIdle
    /\ srv = SrvIdle
    /\ w = WIdle
    /\ sy = SyIdle
    /\ ar = ArIdle
    /\ sc = ScIdle
    /\ su = SuIdle

SpecShutdown == ShutdownInit /\ [][ShutdownNext]_vars

\* The runtime runs every runnable task, synchronous code that does not
\* block comes to its next await, time passes, and a worker thread that
\* is outside a task polls the timers again and again.
ShutdownFairness ==
    /\ \A t \in Channels :
          /\ WF_vars(TaskSchedule(t))
          /\ WF_vars(TaskYield(t))
          /\ WF_vars(TaskNotified(t))
    /\ WF_vars(DmBroadcast)
    /\ WF_vars(GraceTick)
    /\ WF_vars(DmJoined)
    /\ SF_vars(DmTimeout)

SpecShutdownFair == SpecShutdown /\ ShutdownFairness

\* C33: once the shutdown signal has arrived, Daemon::run returns, even if
\* a channel task never stops.
C33_RunReturnsAfterSignal == (dm.pc = "broadcast") ~> (dm.pc = "returned")

\* ------------------------------------------------------------------------
\* Order of delivery (watcher.rs, next and run)
\* ------------------------------------------------------------------------
\* A step of next() that takes a kernel event from the stream.
TakesKernelEvent == w.pc = "wait" /\ w.kq # <<>> /\ w'.pc = "loop"

\* A step of next() that returns an event to run().
ReturnsEvent == w.pc = "loop" /\ w'.pc = "handler"

\* C34: the handler gets the events in the order of the ready queue, and
\* an event that is in the ready queue is delivered before a later kernel
\* event is processed.
C34_ReadyBeforeLaterKernelEvent ==
    [][ /\ (ReturnsEvent /\ w.ready # <<>>)
            => (w'.cur = Head(w.ready) /\ w'.ready = Tail(w.ready))
        /\ TakesKernelEvent => w.ready = <<>> ]_vars

\* C38: a close-after-write that a producer VM caused, for a file that
\* still holds what the VM wrote, is never dropped as an own write.
C38_ProducerWriteIsNeverSkipped ==
    w.pc # "off" =>
        ~(/\ w.last.mask = "CLOSE_WRITE"
          /\ w.last.cause = "vm"
          /\ w.last.id \in w.touched
          /\ w.last.skipped)

\* ------------------------------------------------------------------------
\* ChannelRunner::run from its start, with the producers at work: the sync
\* pass, the registration of the watches, then the events of the watched
\* subtrees (gate/daemon.rs, gate/sync.rs, watcher.rs)
\* ------------------------------------------------------------------------
\* The handler's own installs are not queued: their events are dropped by
\* the skip cache.  A Deleted event is delivered at once, a Modified event
\* after its debounce, so a Deleted event may overtake Modified events.
MaxDispatches == 2

ChEvent(kind, source, rel, cause) ==
    [kind |-> kind, source |-> source, rel |-> rel, cause |-> cause]

NoChEvent == ChEvent("none", NoVal, <<>>, "none")

SuStart ==
    [pc |-> "on", watched |-> {}, queue |-> <<>>, cur |-> NoChEvent,
     echoed |-> {}, dispatched |-> 0, missed |-> {}]

\* inotify reports an operation only for a directory that has a watch.
Enqueue(s, ev) ==
    IF ev.source \in s.watched THEN [s EXCEPT !.queue = Append(@, ev)] ELSE s

\* The inventory is taken, and neither the rest of the sync pass nor the
\* handler nor a queued event concerns the path.
NothingPlanned(rel) ==
    /\ sy.pass >= 1
    /\ Returned
    /\ \A a \in syncActions : a.rel # rel
    /\ \A k \in 1..Len(su.queue) : su.queue[k].rel # rel

ChFrame ==
    UNCHANGED <<cfg, export, quarantine, phase, syncActions, log, judgedClean,
                nEvents, proxyVars, watcherVars, ar, sc, dm>>

\* A producer VM writes a file and closes it.
ChVmWrite(p, r, c) ==
    /\ su.pc = "on"
    /\ VmMayAct(p, r)
    /\ share[p][r] # c
    /\ share' = [share EXCEPT ![p][r] = c]
    /\ h' = IF HandleOn(p, r) /\ share[p][r] # Absent
            THEN [h EXCEPT !.srcContent = c] ELSE h
    /\ vmOps' = vmOps + 1
    /\ sy' = Touch(p, r)
    /\ su' = [Enqueue(su, ChEvent("Modified", p, r, "vm")) EXCEPT
                !.missed = { m \in @ : m[2] # r }
                           \cup (IF p \notin su.watched /\ NothingPlanned(r)
                                 THEN {<<p, r>>} ELSE {})]
    /\ ChFrame

\* A producer VM unlinks a file.
ChVmDelete(p, r) ==
    /\ su.pc = "on"
    /\ VmMayAct(p, r)
    /\ share[p][r] # Absent
    /\ share' = [share EXCEPT ![p][r] = Absent]
    /\ h' = IF HandleOn(p, r) THEN [h EXCEPT !.srcLinked = FALSE] ELSE h
    /\ vmOps' = vmOps + 1
    /\ su' = [Enqueue(su, ChEvent("Deleted", p, r, "vm")) EXCEPT
                !.missed = { m \in @ : m[2] # r }]
    /\ UNCHANGED timeVars
    /\ ChFrame

\* ChannelRunner::run after sync::run: watcher.add_recursive for the next
\* producer of config.producers.
RegisterWatch(p) ==
    /\ su.pc = "on"
    /\ phase = "sync"
    /\ sy.pass >= 1
    /\ Returned
    /\ syncActions = {}
    /\ p \notin su.watched
    /\ \E i \in 1..Len(ProducerOrder) :
          /\ ProducerOrder[i] = p
          /\ \A j \in 1..(i - 1) : ProducerOrder[j] \in su.watched
    /\ su' = [su EXCEPT !.watched = @ \cup {p}]
    /\ UNCHANGED <<gateVars, proxyVars, watcherVars, timeVars, ar, sc, dm>>

\* watcher.run(&mut self.handler) is entered.
ChRun ==
    /\ su.pc = "on"
    /\ su.watched = Producers
    /\ StartWatching

\* The kernel reports a removal the handler made in a watched subtree.
ChEcho ==
    /\ su.pc = "on"
    /\ \E e \in Removes :
          /\ e.root = "share"
          /\ e \notin su.echoed
          /\ su' = [Enqueue(su, ChEvent("Deleted", e.prod, e.rel, "own")) EXCEPT
                      !.echoed = @ \cup {e}]
    /\ UNCHANGED <<gateVars, proxyVars, watcherVars, timeVars, ar, sc, dm>>

WithoutAt(q, i) == SubSeq(q, 1, i - 1) \o SubSeq(q, i + 1, Len(q))

\* Watcher::run: next() returns an event and the handler is called.
ChDispatch ==
    /\ su.pc = "on"
    /\ phase = "watch"
    /\ Returned
    /\ su.dispatched < MaxDispatches
    /\ \A e \in Removes : e.root = "share" => e \in su.echoed
    /\ \E i \in 1..Len(su.queue) :
          /\ \A j \in 1..(i - 1) : su.queue[j].kind = "Modified"
          /\ i = 1 \/ su.queue[i].kind = "Deleted"
          /\ LET ev == su.queue[i] IN
             /\ h' = Enter(ev.kind, SharePath(ev.source) \o ev.rel,
                           SharePath(ev.source), ev.source, "watch")
             /\ su' = [su EXCEPT !.queue = WithoutAt(@, i), !.cur = ev,
                                 !.echoed = {}, !.dispatched = @ + 1]
    /\ log' = {}
    /\ UNCHANGED <<cfg, share, export, quarantine, phase, syncActions,
                   judgedClean, vmOps, nEvents, proxyVars, watcherVars,
                   timeVars, ar, sc, dm>>

ChannelNext ==
    \/ \E p \in Producers, r \in Rel, c \in Contents : ChVmWrite(p, r, c)
    \/ \E p \in Producers, r \in Rel : ChVmDelete(p, r)
    \/ SyncFirstPass
    \/ SyncTrigger
    \/ SyncDeleteStale
    \/ \E p \in Producers : RegisterWatch(p)
    \/ ChRun
    \/ ChEcho
    \/ ChDispatch
    \/ OpenSource
    \/ Stage
    \/ Scan
    \/ PropCheck
    \/ PropClone
    \/ PropPersist
    \/ DelStep
    \/ Quarantine
    \/ RemoveSource

\* Strictly scanning, quarantining channels.
ChannelConfigs ==
    { cf \in Configs : /\ cf.enabled /\ ~cf.permissive
                       /\ cf.action = "quarantine" }

\* The daemon starts on trees that are in sync: empty, or with one clean
\* file f everywhere, last written a second ago.
ChannelSeeds == { [r \in Rel |-> Absent],
                  [r \in Rel |-> IF r = <<NameF>> THEN "good" ELSE Absent] }

ChannelInit ==
    /\ cfg \in ChannelConfigs
    /\ \E seed \in ChannelSeeds :
          /\ share = [p \in Producers |-> seed]
          /\ export = IF cfg.consumers THEN seed ELSE [r \in Rel |-> Absent]
    /\ sy = [SyIdle EXCEPT !.clock = MaxMTime,
                           !.mtime = [t \in Trees |-> [r \in Rel |-> 1]]]
    /\ quarantine = [r \in Rel |-> Absent]
    /\ phase = "start"
    /\ syncActions = {}
    /\ h = HIdle
    /\ log = {}
    /\ judgedClean = {}
    /\ vmOps = 0
    /\ nEvents = 0
    /\ parseIn = <<>>
    /\ parseOut = ParsePending
    /\ px = PxIdle
    /\ srv = SrvIdle
    /\ w = WIdle
    /\ ar = ArIdle
    /\ sc = ScIdle
    /\ dm = DmIdle
    /\ su = SuStart

SpecChannel == ChannelInit /\ [][ChannelNext]_vars

\* The event loop is running with nothing left to do.
ChannelAtRest ==
    /\ su.pc = "on"
    /\ phase = "watch"
    /\ Returned
    /\ su.queue = <<>>
    /\ \A e \in Removes : e.root = "share" => e \in su.echoed

\* C36: a file that a producer closed after write once the channel task
\* had started is handled: the channel does not come to rest with such a
\* file in place that no handler call, planned sync action or queued event
\* has concerned since it was written.
C36_WriteDuringStartupIsHandled ==
    ChannelAtRest =>
        \A m \in su.missed : share[m[1]][m[2]] = Absent

\* C37: the handler removes a file from a producer's subtree only in a
\* call for a Deleted or Renamed event that another producer's VM caused,
\* or as the source of a call that judged it infected (a scan error of a
\* strict channel counts as infected).
C37_RemovalOnlyForPeerDeleteOrInfected ==
    su.pc = "on" =>
        \A e \in Removes :
            e.root = "share" =>
                \/ /\ h.caller = "watch"
                   /\ h.kind \in {"Deleted", "Renamed"}
                   /\ su.cur.cause = "vm"
                   /\ e.prod # h.source
                \/ /\ h.kind = "Modified"
                   /\ h.verdict \in {"Infected", "Error"}
                   /\ e.prod = h.source
                   /\ e.rel = h.rel

\* ------------------------------------------------------------------------
\* Watches on directories that appear under a registered root (watcher.rs,
\* handle_inotify_event and add_watch_for_new_dir)
\* ------------------------------------------------------------------------
\* Directories are paths below the root: d, d/e and x.  The root has its
\* watch from add_recursive.
MaxDirOps == 4

DirRoot == <<>>

NewDirs == { <<"d">>, <<"d", "e">>, <<"x">> }

DirParent(x) == SubSeq(x, 1, Len(x) - 1)

\* Path::starts_with
StartsWith(x, y) == Len(y) <= Len(x) /\ SubSeq(x, 1, Len(y)) = y

\* Watcher::is_excluded
IsExcluded(s, x) == \E y \in s.excludes : StartsWith(x, y)

DirEvent(mask, isdir, dir, name) ==
    [mask |-> mask, isdir |-> isdir, dir |-> dir, name |-> name]

DirsStart(excludes) ==
    [pc |-> "dirs", excludes |-> excludes, exists |-> {DirRoot},
     watched |-> {DirRoot}, kq |-> <<>>, ops |-> 0, failed |-> {},
     unseen |-> {}, modified |-> {}]

\* The kernel queues an event for the directory it happened in, if that
\* directory has a watch.
DirPost(s, ev) ==
    IF ev.dir \in s.watched THEN [s EXCEPT !.kq = Append(@, ev)] ELSE s

DirUnchanged ==
    UNCHANGED <<gateVars, proxyVars, watcherVars, timeVars, ar, sc, dm>>

DirMayAct == su.pc = "dirs" /\ su.ops < MaxDirOps

\* A producer VM creates a directory in place.
DirMkdir(x) ==
    /\ DirMayAct
    /\ x \notin su.exists
    /\ DirParent(x) \in su.exists
    /\ su' = [DirPost(su, DirEvent("CREATE", TRUE, DirParent(x), x)) EXCEPT
                !.exists = @ \cup {x}, !.ops = @ + 1]
    /\ DirUnchanged

\* A producer VM moves a directory, with what it holds, into the tree.
DirMoveIn(x, inner) ==
    /\ DirMayAct
    /\ x \notin su.exists
    /\ DirParent(x) \in su.exists
    /\ \A y \in inner : y \notin su.exists /\ DirParent(y) = x
    /\ su' = [DirPost(su, DirEvent("MOVED_TO", TRUE, DirParent(x), x)) EXCEPT
                !.exists = @ \cup {x} \cup inner, !.ops = @ + 1]
    /\ DirUnchanged

\* A producer VM writes a file in a directory and closes it.
DirCloseWrite(x) ==
    /\ DirMayAct
    /\ x \in su.exists
    /\ su' = [DirPost(su, DirEvent("CLOSE_WRITE", FALSE, x, x)) EXCEPT
                !.unseen = IF x \in su.watched THEN @ ELSE @ \cup {x},
                !.ops = @ + 1]
    /\ DirUnchanged

\* add_watch_for_new_dir: one watch, on the directory itself.
AddWatchForNewDir(s, x, ok) ==
    IF IsExcluded(s, x) THEN s
    ELSE IF ok /\ x \in s.exists THEN [s EXCEPT !.watched = @ \cup {x}]
    ELSE [s EXCEPT !.failed = @ \cup {x}]

\* handle_inotify_event for the head of the kernel queue.
DirHandleEvent ==
    /\ su.pc = "dirs"
    /\ su.kq # <<>>
    /\ LET ev == Head(su.kq)
           s1 == [su EXCEPT !.kq = Tail(@)]
       IN  \E ok \in BOOLEAN :
              su' = IF ev.mask = "CREATE" /\ ev.isdir
                    THEN AddWatchForNewDir(s1, ev.name, ok)
                    ELSE IF ev.isdir THEN s1
                    ELSE IF ev.mask = "CLOSE_WRITE"
                    THEN [s1 EXCEPT !.modified = @ \cup {ev.dir}]
                    ELSE s1
    /\ DirUnchanged

DirsNext ==
    \/ \E x \in NewDirs : DirMkdir(x)
    \/ \E x \in NewDirs, inner \in SUBSET NewDirs : DirMoveIn(x, inner)
    \/ \E x \in NewDirs \cup {DirRoot} : DirCloseWrite(x)
    \/ DirHandleEvent

DirsInit ==
    /\ su \in { DirsStart(ex) : ex \in { {}, {<<"x">>} } }
    /\ GateVarsInit({CHOOSE cf \in Configs : TRUE}, "watch",
                    {[r \in Rel |-> Absent]})
    /\ parseIn = <<>>
    /\ parseOut = ParsePending
    /\ px = PxIdle
    /\ srv = SrvIdle
    /\ w = WIdle
    /\ sy = SyIdle
    /\ ar = ArIdle
    /\ sc = ScIdle
    /\ dm = DmIdle

SpecDirs == DirsInit /\ [][DirsNext]_vars

\* C39: once the watcher has handled the events it was sent, every
\* directory that has come to exist under the root and outside the
\* excludes has a watch (unless adding the watch failed), so a file closed
\* after write in it is reported.
C39_EveryNewDirectoryIsWatched ==
    (su.pc = "dirs" /\ su.kq = <<>>) =>
        \A x \in su.exists :
            (~IsExcluded(su, x) /\ x \notin su.failed) => x \in su.watched

\* ------------------------------------------------------------------------
\* The bytes of a streaming scan (vproxy/main.rs, handle_instream)
\* ------------------------------------------------------------------------
\* What the guest sends after its command, and what the scanner has been
\* sent after the command.
GuestStream == SubSeq(px.plan, Len(PlannedCommand) + 1, Len(px.plan))

ForwardedStream == SubSeq(px.toClamd, px.command.len + 1, Len(px.toClamd))

\* The index of the last byte of the first zero-length chunk header of a
\* chunk stream read from index i on; 0 if the stream has none.
RECURSIVE TerminatorEnd(_, _)
TerminatorEnd(s, i) ==
    IF i + 3 > Len(s) THEN 0
    ELSE LET n == GetU32(SubSeq(s, i, i + 3))
         IN  IF n = 0 THEN i + 3 ELSE TerminatorEnd(s, i + 4 + n)

StreamCompleted ==
    /\ px.command.cmd = "Instream"
    /\ Len(px.fwdSizes) > 0
    /\ px.fwdSizes[Len(px.fwdSizes)] = 0

\* C40: what the scanner has been sent after the command is at every
\* moment a prefix of what the guest sends after its command and no longer
\* than what has been read from the guest, however the reads split it; a completed stream is forwarded exactly through its
\* zero-length terminator, and nothing the guest sends after the
\* terminator is forwarded.
C40_ForwardedIsPrefixOfGuestStream ==
    (px.pc # "off" /\ px.command.cmd = "Instream" /\ px.toClamd # <<>>) =>
        /\ IsPrefix(ForwardedStream, GuestStream)
        /\ px.guestOpen =>
              Len(PlannedCommand) + Len(ForwardedStream)
                 <= Len(px.plan) - Len(px.guest)
        /\ TerminatorEnd(GuestStream, 1) > 0 =>
              Len(ForwardedStream) <= TerminatorEnd(GuestStream, 1)
        /\ StreamCompleted =>
              /\ TerminatorEnd(GuestStream, 1) > 0
              /\ ForwardedStream =
                    SubSeq(GuestStream, 1, TerminatorEnd(GuestStream, 1))
              /\ SubSeq(ForwardedStream, Len(ForwardedStream) - 3,
                        Len(ForwardedStream)) = <<0, 0, 0, 0>>

\* A stream with a data chunk, its terminator and one more byte has been
\* forwarded up to the terminator and answered.
C40_Witness ==
    /\ px.pc = "closed"
    /\ px.result = "ok"
    /\ StreamCompleted
    /\ Len(px.fwdSizes) > 1
    /\ Len(GuestStream) > TerminatorEnd(GuestStream, 1)
    /\ ForwardedStream = SubSeq(GuestStream, 1, TerminatorEnd(GuestStream, 1))

====
